---- MODULE Spec2Model ----
(***************************************************************************)
(* State-machine model of the Gemini web session client                    *)
(* (internal/providers/gemini: Client, CookieStore) and of the threads     *)
(* that use it: the start-up call of Init, the background rotation loop,   *)
(* concurrent GenerateContent callers and Close.                           *)
(*                                                                         *)
(* Strings that the code inspects character by character (cookie values,   *)
(* the nonce) are sequences of one-character strings; <<>> is "".          *)
(***************************************************************************)
EXTENDS Integers, Sequences, FiniteSets, TLC

\* ------------------------------------------------------------------ bounds
\* Most ticks of the rotation ticker that one behaviour follows.
MaxTicks == 2
MaxBodyLines == 3

\* --------------------------------------------------------------- constants
StatusOK == 200
ExcerptMax == 200

\* ------------------------------------------------------------ string helpers
RECURSIVE TrimLeftSet(_, _)
TrimLeftSet(s, cs) ==
    IF s # <<>> /\ Head(s) \in cs THEN TrimLeftSet(Tail(s), cs) ELSE s

RECURSIVE TrimRightSet(_, _)
TrimRightSet(s, cs) ==
    IF s # <<>> /\ s[Len(s)] \in cs
    THEN TrimRightSet(SubSeq(s, 1, Len(s) - 1), cs)
    ELSE s

\* strings.Trim(s, cutset)
Trim(s, cs) == TrimRightSet(TrimLeftSet(s, cs), cs)

\* strings.TrimSpace
TrimSpace(s) == Trim(s, {" ", "\t", "\n", "\r"})

\* strings.TrimSuffix(s, one character): removes it once
TrimSuffix(s, ch) ==
    IF s # <<>> /\ s[Len(s)] = ch THEN SubSeq(s, 1, Len(s) - 1) ELSE s

cleanCookie(v) ==
    TrimSuffix(Trim(Trim(TrimSpace(v), {"\""}), {"'"}), ";")

\* ------------------------------------------------------- credential values
PSID_abc == <<"a", "b", "c">>
TS_cfg == <<"s", "0">>
TS_old == <<"s", "c">>
TS_new1 == <<"s", "1">>
TS_new2 == <<"s", "2">>
CC_new == <<"c", "1">>
PSID_other == <<"x", "y", "z">>

\* Values the configuration loader can hand to NewClient.  It rejects an
\* empty long-lived secret, not one that is empty once cleaned.
CfgPSID == { PSID_abc, <<" ", "\"">> \o PSID_abc \o <<"\"">>, <<"\"", "\"">> }
CfgPSIDTS == { <<>>, TS_cfg }
CfgPSIDCC == { <<>> }

\* Name of the cache file of a long-lived secret: .cookies/<sha256 hex>.txt.
\* The hash is injective on the values of the model, and is not the secret.
CacheFile(psid) == [sha256 |-> psid]

NoFiles == [f \in {} |-> <<>>]

\* Contents of the .cookies directory when the process starts.
InitialCaches ==
    { NoFiles,
      [f \in {CacheFile(PSID_abc)} |-> TS_cfg],
      [f \in {CacheFile(PSID_abc)} |-> TS_old] }

\* ------------------------------------------------- landing page (handshake)
\* The landing page body is a sequence of fragments.  A fragment is either
\* the text "SNlM0e":"<tok>" (k = "kv"), the text ["SNlM0e","<tok>"]
\* (k = "arr"), or other text that may carry a marker word (k = "txt").
KV(tok) == [k |-> "kv", tok |-> tok, mark |-> ""]
ARR(tok) == [k |-> "arr", tok |-> tok, mark |-> ""]
TXT(mark) == [k |-> "txt", tok |-> <<>>, mark |-> mark]

NonceA == <<"T", "1">>
NonceB == <<"T", "2">>

LandingBodies ==
    { <<KV(NonceA)>>,
      <<TXT("other"), ARR(NonceA)>>,
      <<ARR(NonceB), KV(NonceA)>>,
      <<KV(<<>>)>>,
      <<KV(<<>>), TXT("Sign in")>>,
      <<TXT("login")>>,
      <<TXT("other")>>,
      <<>> }

\* Fault variant: the group is (.*?), which also matches an empty value.
FindSubmatch_AnyValue(body, kind) ==
    LET hits == { i \in 1..Len(body) : body[i].k = kind }
    IN  IF hits = {} THEN <<>>
        ELSE LET i == CHOOSE j \in hits : \A h \in hits : j <= h
             IN  <<body[i], body[i].tok>>

\* regexp FindStringSubmatch for a pattern whose group is [^"]+ : the
\* leftmost fragment of that shape with a non-empty value; <<>> if none.
FindSubmatch(body, kind) ==
    LET hits == { i \in 1..Len(body) : body[i].k = kind /\ body[i].tok # <<>> }
    IN  IF hits = {} THEN <<>>
        ELSE LET i == CHOOSE j \in hits : \A h \in hits : j <= h
             IN  <<body[i], body[i].tok>>

\* strings.Contains(body, word)
Contains(body, word) == \E i \in 1..Len(body) : body[i].mark = word

ErrNotFound == "authentication failed: SNlM0e not found"
ErrCookiesInvalid == "authentication failed: cookies invalid. Please provide __Secure-1PSIDTS in addition to __Secure-1PSID"
ErrReach == "failed to reach gemini app"

\* Fault variant: the body is not searched for the sign-in markers.
ExtractNonce_NoMarkerCheck(body) ==
    LET m1 == FindSubmatch(body, "kv")
        m2 == FindSubmatch(body, "arr")
        matches == IF Len(m1) < 2 THEN m2 ELSE m1
    IN  IF Len(matches) < 2
        THEN [err |-> ErrNotFound, at |-> <<>>]
        ELSE [err |-> "", at |-> matches[2]]

\* The extraction part of refreshSessionToken: the error ("" for nil) and
\* the nonce found in the body.
ExtractNonce(body) ==
    LET m1 == FindSubmatch(body, "kv")
        m2 == FindSubmatch(body, "arr")
        matches == IF Len(m1) < 2 THEN m2 ELSE m1
    IN  IF Len(matches) < 2
        THEN [err |-> IF Contains(body, "Sign in") \/ Contains(body, "login")
                      THEN ErrCookiesInvalid ELSE ErrNotFound,
              at |-> <<>>]
        ELSE [err |-> "", at |-> matches[2]]

\* ------------------------------------------------------ rotation endpoint
NameTS == "__Secure-1PSIDTS"
NameCC == "__Secure-1PSIDCC"
NamePSID == "__Secure-1PSID"

Ck(n, v) == [name |-> n, value |-> v]

\* Answers of the rotation endpoint: a transport failure, or a status with
\* the cookies of the Set-Cookie headers in order.
RotFail == [transport |-> FALSE, status |-> 0, cookies |-> <<>>]
RotAnswer(st, cks) == [transport |-> TRUE, status |-> st, cookies |-> cks]

RotResponses ==
    { RotFail,
      RotAnswer(401, <<Ck(NameTS, TS_new1)>>),
      RotAnswer(StatusOK, <<>>),
      RotAnswer(StatusOK, <<Ck(NameCC, CC_new)>>),
      RotAnswer(StatusOK, <<Ck(NameTS, TS_new1)>>),
      RotAnswer(StatusOK, <<Ck(NameTS, TS_new2), Ck(NameCC, CC_new)>>),
      RotAnswer(StatusOK, <<Ck(NamePSID, PSID_other), Ck(NameTS, TS_new1)>>) }

\* The same, and the answers a server sends more rarely: a rotating-secret
\* cookie with an empty value, and two cookies of that name in one answer.
RotResponsesAll ==
    RotResponses \cup
    { RotAnswer(StatusOK, <<Ck(NameTS, <<>>)>>),
      RotAnswer(StatusOK, <<Ck(NameTS, TS_new1), Ck(NameTS, TS_new2)>>) }

ErrRotCall == "failed to call rotation endpoint"
ErrRotStatus == "rotation failed with status"
ErrRotNoCookie == "no new __Secure-1PSIDTS cookie received"

\* Outcomes of changing the cache file (os.MkdirAll, os.WriteFile,
\* os.Remove): done or failed.  The callers drop the error.
DiskWriteOutcomes == {TRUE, FALSE}

\* SaveCachedCookies: the files after the call.
SaveCachedCookies(ck, fs, written) ==
    IF ck.Secure1PSID = <<>> \/ ck.Secure1PSIDTS = <<>> THEN fs
    ELSE IF ~written THEN fs
    ELSE [f \in DOMAIN fs \cup {CacheFile(ck.Secure1PSID)} |->
            IF f = CacheFile(ck.Secure1PSID) THEN ck.Secure1PSIDTS ELSE fs[f]]

\* LoadCachedCookies: the value read, <<>> together with an error otherwise.
LoadCachedCookies(ck, fs) ==
    IF ck.Secure1PSID = <<>> THEN [ts |-> <<>>, err |-> "no PSID available"]
    ELSE IF CacheFile(ck.Secure1PSID) \notin DOMAIN fs
         THEN [ts |-> <<>>, err |-> "no such file"]
    ELSE LET ts == TrimSpace(fs[CacheFile(ck.Secure1PSID)])
         IN  IF ts = <<>> THEN [ts |-> <<>>, err |-> "empty cache file"]
             ELSE [ts |-> ts, err |-> ""]

\* ClearCookieCache: the files after the call.
ClearCookieCache(ck, fs, removed) ==
    IF ck.Secure1PSID = <<>> \/ ~removed THEN fs
    ELSE [f \in DOMAIN fs \ {CacheFile(ck.Secure1PSID)} |-> fs[f]]

\* Fault variant: the value received is appended to the rotating secret
\* held instead of replacing it.
RECURSIVE ScanRotCookies_Merge(_, _, _, _)
ScanRotCookies_Merge(cks, i, st, written) ==
    IF i > Len(cks) THEN st
    ELSE LET c == cks[i]
             ck1 == IF c.name = NameTS
                    THEN [st.ck EXCEPT !.Secure1PSIDTS = @ \o c.value,
                                       !.UpdatedAt = st.ck.UpdatedAt + 1]
                    ELSE st.ck
             fs1 == IF c.name = NameTS
                    THEN SaveCachedCookies(ck1, st.fs, written) ELSE st.fs
             ck2 == IF c.name = NameCC
                    THEN [ck1 EXCEPT !.Secure1PSIDCC = c.value] ELSE ck1
         IN  ScanRotCookies_Merge(cks, i + 1,
                 [ck |-> ck2, fs |-> fs1, found |-> st.found \/ c.name = NameTS],
                 written)

\* Fault variant: a cookie of the answer named like the long-lived secret is
\* stored too.
RECURSIVE ScanRotCookies_StoresPSID(_, _, _, _)
ScanRotCookies_StoresPSID(cks, i, st, written) ==
    IF i > Len(cks) THEN st
    ELSE LET c == cks[i]
             ck0 == IF c.name = NamePSID
                    THEN [st.ck EXCEPT !.Secure1PSID = c.value] ELSE st.ck
             ck1 == IF c.name = NameTS
                    THEN [ck0 EXCEPT !.Secure1PSIDTS = c.value,
                                     !.UpdatedAt = st.ck.UpdatedAt + 1]
                    ELSE ck0
             fs1 == IF c.name = NameTS
                    THEN SaveCachedCookies(ck1, st.fs, written) ELSE st.fs
             ck2 == IF c.name = NameCC
                    THEN [ck1 EXCEPT !.Secure1PSIDCC = c.value] ELSE ck1
         IN  ScanRotCookies_StoresPSID(cks, i + 1,
                 [ck |-> ck2, fs |-> fs1, found |-> st.found \/ c.name = NameTS],
                 written)

\* The loop of RotateCookies over the response cookies, from cookie i on.
\* st = [ck, fs, found].
RECURSIVE ScanRotCookies(_, _, _, _)
ScanRotCookies(cks, i, st, written) ==
    IF i > Len(cks) THEN st
    ELSE LET c == cks[i]
             ck1 == IF c.name = NameTS
                    THEN [st.ck EXCEPT !.Secure1PSIDTS = c.value,
                                       !.UpdatedAt = st.ck.UpdatedAt + 1]
                    ELSE st.ck
             fs1 == IF c.name = NameTS
                    THEN SaveCachedCookies(ck1, st.fs, written) ELSE st.fs
             ck2 == IF c.name = NameCC
                    THEN [ck1 EXCEPT !.Secure1PSIDCC = c.value] ELSE ck1
         IN  ScanRotCookies(cks, i + 1,
                 [ck |-> ck2, fs |-> fs1, found |-> st.found \/ c.name = NameTS],
                 written)

\* Fault variant: an answer with a status other than 200 makes the client
\* drop the rotating secret it holds.
RotateOutcome_ClearsOnStatus(resp, ck, fs, written) ==
    IF ~resp.transport
    THEN [err |-> ErrRotCall, ck |-> ck, fs |-> fs]
    ELSE IF resp.status # StatusOK
    THEN [err |-> ErrRotStatus, ck |-> [ck EXCEPT !.Secure1PSIDTS = <<>>], fs |-> fs]
    ELSE LET st == ScanRotCookies(resp.cookies, 1,
                       [ck |-> ck, fs |-> fs, found |-> FALSE], written)
         IN  [err |-> IF st.found THEN "" ELSE ErrRotNoCookie,
              ck |-> st.ck, fs |-> st.fs]

\* Fault variant: the status of the answer is not looked at.
RotateOutcome_IgnoreStatus(resp, ck, fs, written) ==
    IF ~resp.transport
    THEN [err |-> ErrRotCall, ck |-> ck, fs |-> fs]
    ELSE LET st == ScanRotCookies(resp.cookies, 1,
                       [ck |-> ck, fs |-> fs, found |-> FALSE], written)
         IN  [err |-> IF st.found THEN "" ELSE ErrRotNoCookie,
              ck |-> st.ck, fs |-> st.fs]

\* RotateCookies from the answer on: the error returned ("" for nil) and
\* the credential set and cache files it leaves.
RotateOutcome(resp, ck, fs, written) ==
    IF ~resp.transport
    THEN [err |-> ErrRotCall, ck |-> ck, fs |-> fs]
    ELSE IF resp.status # StatusOK
    THEN [err |-> ErrRotStatus, ck |-> ck, fs |-> fs]
    ELSE LET st == ScanRotCookies(resp.cookies, 1,
                       [ck |-> ck, fs |-> fs, found |-> FALSE], written)
         IN  [err |-> IF st.found THEN "" ELSE ErrRotNoCookie,
              ck |-> st.ck, fs |-> st.fs]

\* ------------------------------------------------------- response parser
\* JSON values.  A string carries in j the value it decodes to when its
\* content is itself JSON text (<<v>>), and <<>> when it is not.
JNull == [t |-> "null", s |-> "", a |-> <<>>, j |-> <<>>]
JNum == [t |-> "num", s |-> "", a |-> <<>>, j |-> <<>>]
JStr(s) == [t |-> "str", s |-> s, a |-> <<>>, j |-> <<>>]
JEnc(v) == [t |-> "str", s |-> "<json>", a |-> <<>>, j |-> <<v>>]
JArr(a) == [t |-> "arr", s |-> "", a |-> a, j |-> <<>>]

\* A line of the body after strings.TrimSpace: blank or not, whether it
\* starts with the prefix )]}' and what the rest decodes to as JSON.
Line(prefix, j) == [blank |-> FALSE, prefix |-> prefix, j |-> j]
BlankLine == [blank |-> TRUE, prefix |-> FALSE, j |-> <<>>]

\* strings.TrimPrefix(line, ")]}'")
TrimPrefix(line) == [line EXCEPT !.prefix = FALSE]

\* json.Unmarshal into []interface{}: an array decodes, null decodes to
\* nil, anything else (and text that is not JSON) is an error.
Unmarshal(prefix, j) ==
    IF prefix \/ j = <<>> THEN [ok |-> FALSE, a |-> <<>>]
    ELSE IF j[1].t = "arr" THEN [ok |-> TRUE, a |-> j[1].a]
    ELSE IF j[1].t = "null" THEN [ok |-> TRUE, a |-> <<>>]
    ELSE [ok |-> FALSE, a |-> <<>>]

NoText == [found |-> FALSE, text |-> "", cid |-> "", rid |-> "", rcid |-> ""]

\* The body of the loop over the items of one line.
ItemText(item) ==
    IF item.t # "arr" \/ Len(item.a) < 3 THEN NoText
    ELSE IF item.a[3].t # "str" THEN NoText
    ELSE LET u == Unmarshal(FALSE, item.a[3].j)
             payload == u.a
         IN  IF ~u.ok \/ ~(Len(payload) > 4) THEN NoText
             ELSE LET candidates == payload[5]
                  IN  IF ~(candidates.t = "arr" /\ Len(candidates.a) > 0) THEN NoText
                      ELSE LET firstCandidate == candidates.a[1]
                           IN  IF ~(firstCandidate.t = "arr" /\ Len(firstCandidate.a) >= 2)
                               THEN NoText
                               ELSE LET contentParts == firstCandidate.a[2]
                                    IN  IF ~(contentParts.t = "arr" /\ Len(contentParts.a) > 0)
                                        THEN NoText
                                        ELSE IF contentParts.a[1].t # "str" THEN NoText
                                        ELSE [found |-> TRUE,
                                              text |-> contentParts.a[1].s,
                                              cid |-> IF payload[2].t = "str"
                                                      THEN payload[2].s ELSE "",
                                              rid |-> "",
                                              rcid |-> IF firstCandidate.a[1].t = "str"
                                                       THEN firstCandidate.a[1].s ELSE ""]

\* The first item of a line that yields text.
LineText(line) ==
    IF line.blank THEN NoText
    ELSE LET root == Unmarshal(TrimPrefix(line).prefix, line.j)
             hits == { i \in 1..Len(root.a) : ItemText(root.a[i]).found }
         IN  IF ~root.ok \/ hits = {} THEN NoText
             ELSE ItemText(root.a[CHOOSE i \in hits : \A h \in hits : i <= h])

ErrParse == "failed to parse response"
ErrNotInit == "client not initialized"
ErrTransport == "transport error"
ErrStatus == "generate failed with status"

\* What a call returns: the error text ("" for nil), the status code and the
\* part of the body that the error text quotes (<<e>> for an excerpt e; no
\* error of the client quotes the body, so <<>>), and the response.
Resp(err, code, r) ==
    [err |-> err, code |-> code, excerpt |-> <<>>, text |-> r.text,
     cid |-> r.cid, rid |-> r.rid, rcid |-> r.rcid]

NoResp == Resp("none", 0, NoText)

\* Fault variant: the first line that is not blank decides; when it does not
\* decode to text the parser fails without trying the lines after it.
parseResponse_StopsAtBadLine(body) ==
    LET tried == { i \in 1..Len(body) : ~body[i].blank }
    IN  IF tried = {} THEN Resp(ErrParse, 0, NoText)
        ELSE LET first == CHOOSE i \in tried : \A h \in tried : i <= h
             IN  IF LineText(body[first]).found
                 THEN Resp("", 0, LineText(body[first]))
                 ELSE Resp(ErrParse, 0, NoText)

\* parseResponse: the first line that yields text decides.
parseResponse(body) ==
    LET hits == { i \in 1..Len(body) : LineText(body[i]).found }
    IN  IF hits = {} THEN Resp(ErrParse, 0, NoText)
        ELSE Resp("", 0, LineText(body[CHOOSE i \in hits : \A h \in hits : i <= h]))

\* Bodies the generation endpoint can answer with.
Payload(cid, cands) == JEnc(JArr(<<JNull, cid, JNull, JNull, cands>>))
Cand(rcid, text) == JArr(<<rcid, JArr(<<JStr(text)>>)>>)
Item(p) == JArr(<<JStr("wrb.fr"), JNull, p>>)
GoodItem(text) == Item(Payload(JStr("c_1"), JArr(<<Cand(JStr("rc_1"), text)>>)))
BadItems ==
    << JStr("wrb.fr"),
       JArr(<<JStr("wrb.fr"), JNull>>),
       Item(JNum),
       Item(JStr("not json")),
       Item(JEnc(JNum)),
       Item(JEnc(JNull)),
       Item(JEnc(JArr(<<JNull, JStr("c_1")>>))),
       Item(Payload(JStr("c_1"), JNull)),
       Item(Payload(JStr("c_1"), JArr(<<>>))),
       Item(Payload(JStr("c_1"), JArr(<<JStr("rc_1")>>))),
       Item(Payload(JStr("c_1"), JArr(<<JArr(<<JStr("rc_1")>>)>>))),
       Item(Payload(JStr("c_1"), JArr(<<JArr(<<JStr("rc_1"), JArr(<<>>)>>)>>))),
       Item(Payload(JStr("c_1"), JArr(<<JArr(<<JStr("rc_1"), JArr(<<JNum>>)>>)>>))) >>

GarbageLine == Line(FALSE, <<>>)
PrefixOnlyLine == Line(TRUE, <<>>)
NumberLine == Line(FALSE, <<JNum>>)

\* Lines that carry an answer, with the answer, and lines that carry none:
\* blank, not JSON, JSON of another shape, items that fail to decode at some
\* level.
TextLines ==
    { [line |-> Line(FALSE, <<JArr(<<GoodItem("Hello world")>>)>>), text |-> "Hello world"],
      [line |-> Line(TRUE, <<JArr(<<GoodItem("Hi")>>)>>), text |-> "Hi"],
      [line |-> Line(FALSE, <<JArr(BadItems \o <<GoodItem("Bye")>>)>>), text |-> "Bye"] }

DeadLines ==
    { BlankLine, GarbageLine, PrefixOnlyLine, NumberLine,
      Line(FALSE, <<JNull>>), Line(FALSE, <<JArr(BadItems)>>) }

ParseLines == { t.line : t \in TextLines } \cup DeadLines

\* Bodies of up to MaxBodyLines lines.
ParseBodies == UNION { [1..n -> ParseLines] : n \in 0..MaxBodyLines }

GenBodies ==
    { <<BlankLine>>,
      <<PrefixOnlyLine, BlankLine, NumberLine,
        Line(FALSE, <<JArr(<<GoodItem("Hello world")>>)>>)>>,
      <<GarbageLine, Line(TRUE, <<JArr(<<GoodItem("Hello world")>>)>>)>>,
      <<Line(FALSE, <<JArr(BadItems \o <<GoodItem("Hello world")>>)>>)>>,
      <<Line(FALSE, <<JArr(BadItems)>>), GarbageLine>>,
      <<Line(FALSE, <<JArr(<<GoodItem("")>>)>>)>> }

\* ------------------------------------------------------ rotation interval
\* Length of the values of GEMINI_REFRESH_INTERVAL.
MaxEnvLen == 3

defaultGeminiRefreshInterval == 5
defaultRefreshIntervalMinutes == 30

\* Values of the variable: characters; <<>> is what os.Getenv gives for a
\* variable that is unset or empty.
EnvValues == UNION { [1..n -> {"-", "0", "1", "7", "x"}] : n \in 0..MaxEnvLen }

Digits == {"0", "1", "7"}
DigitVal(c) == CASE c = "0" -> 0 [] c = "1" -> 1 [] OTHER -> 7

\* The number a run of digits stands for.
RECURSIVE Decimal(_)
Decimal(ds) ==
    IF ds = <<>> THEN 0
    ELSE 10 * Decimal(SubSeq(ds, 1, Len(ds) - 1)) + DigitVal(ds[Len(ds)])

\* strconv.Atoi: an optional sign and at least one digit, nothing else.
Atoi(str) ==
    LET signed == str # <<>> /\ str[1] = "-"
        ds == IF signed THEN Tail(str) ELSE str
    IN  IF ds = <<>> \/ \E i \in 1..Len(ds) : ds[i] \notin Digits
        THEN [ok |-> FALSE, val |-> 0]
        ELSE [ok |-> TRUE, val |-> IF signed THEN 0 - Decimal(ds) ELSE Decimal(ds)]

\* config.getEnvInt
getEnvInt(valueStr, defaultValue) ==
    IF valueStr = <<>> THEN defaultValue
    ELSE IF ~Atoi(valueStr).ok THEN defaultValue
    ELSE Atoi(valueStr).val

\* NewClient, lines 85-94: the interval of the rotation loop, in minutes.
NewClientInterval(cfgRefreshInterval) ==
    IF cfgRefreshInterval <= 0 THEN defaultRefreshIntervalMinutes
    ELSE cfgRefreshInterval

\* ------------------------------------------------------------ chat session
\* Messages a caller sends in one session.
MaxTurns == 3

\* Conversation identifiers; none of them set when there is no conversation.
NoIds == [cid |-> "", rid |-> "", rcid |-> ""]

\* What HandleChat hands to StartChat: no metadata, or the identifiers of
\* the request.
ChatMetadata == { NoIds, [cid |-> "c_0", rid |-> "r_0", rcid |-> "rc_0"] }

ChatTexts == { "hi", "more" }

\* Answers of the generation endpoint to a message: a reply that carries
\* identifiers, a reply that carries none, a body without a reply.
ChatBodies ==
    { <<Line(FALSE, <<JArr(<<GoodItem("Hello world")>>)>>)>>,
      <<Line(FALSE, <<JArr(<<Item(Payload(JNull, JArr(<<Cand(JNull, "Hi")>>)))>>)>>)>>,
      <<GarbageLine>> }

\* No session.
NoChat ==
    [open |-> FALSE, metadata |-> NoIds, history |-> <<>>, sent |-> <<>>]

\* The inner array of the request of GenerateContent for a prompt and the
\* configuration left by the options: the options do not reach the array.
GenerateInner(prompt, config) ==
    JArr(<<JArr(<<JStr(prompt)>>), JNull, JNull>>)

\* The identifiers of a response, as a session keeps them.
IdsOf(r) == [cid |-> r.cid, rid |-> r.rid, rcid |-> r.rcid]

\* ------------------------------------------------------ simulated streams
\* Length of the texts that are streamed.
MaxTextLen == 3

Dialects == { "gemini", "claude", "openai" }

\* Texts of a response: characters, some of them spaces.
StreamTexts == UNION { [1..n -> {"a", " "}] : n \in 0..MaxTextLen }

\* strings.Split(text, " ")
RECURSIVE Split(_)
Split(text) ==
    LET spaces == { i \in 1..Len(text) : text[i] = " " }
    IN  IF spaces = {} THEN <<text>>
        ELSE LET k == CHOOSE i \in spaces : \A j \in spaces : i <= j
             IN  <<SubSeq(text, 1, k - 1)>> \o Split(SubSeq(text, k + 1, Len(text)))

\* splitResponseIntoChunks, and the same loop written out in the OpenAI
\* handler: every word but the last keeps its space.
splitResponseIntoChunks(text) ==
    LET words == Split(text)
    IN  [i \in 1..Len(words) |->
           IF i < Len(words) THEN Append(words[i], " ") ELSE words[i]]

\* What a handler writes: the kind of chunk or event and its text.
Event(kind, text) == [kind |-> kind, text |-> text]

\* Written before the first content chunk.
StreamStartEvents(dialect) ==
    IF dialect = "claude"
    THEN <<Event("message_start", <<>>), Event("content_block_start", <<>>)>>
    ELSE <<>>

\* Fault variant: the Claude handler ends the message before it ends the
\* content block.
StreamFinalEvents_StopFirst(dialect) ==
    CASE dialect = "gemini" -> <<Event("STOP", <<>>)>>
      [] dialect = "claude" ->
           <<Event("message_stop", <<>>), Event("content_block_stop", <<>>)>>
      [] OTHER -> <<Event("stop", <<>>), Event("[DONE]", <<>>)>>

\* Written after the last content chunk: what completes the stream.
StreamFinalEvents(dialect) ==
    CASE dialect = "gemini" -> <<Event("STOP", <<>>)>>
      [] dialect = "claude" ->
           <<Event("content_block_stop", <<>>), Event("message_stop", <<>>)>>
      [] OTHER -> <<Event("stop", <<>>), Event("[DONE]", <<>>)>>

\* Whether the wait after a chunk returns true: sleepWithCancel returns
\* false when the context is done before the timer, time.Sleep of the OpenAI
\* handler returns whatever happened to the context.
WaitReturns(dialect, cancelled) ==
    IF dialect = "openai" THEN TRUE ELSE ~cancelled

\* No stream.  sent holds the chunks and events the handler has handed to
\* its writer, out those of them that were written.
NoStream ==
    [dialect |-> "none", pc |-> "idle", chunks |-> <<>>, i |-> 0, out |-> <<>>,
     cancelled |-> FALSE, passed |-> FALSE, sent |-> <<>>]

\* The handlers that cut an answer into content chunks: those of the three
\* dialects that main.go builds, and the ClaudeHandler of package handlers.
ChunkHandlers == { "gemini", "openai", "claude", "ClaudeHandler" }

\* The loop of the Claude handler of package claude: every word is sent
\* followed by a space.
wordsWithSpace(text) ==
    LET words == Split(text)
    IN  [i \in 1..Len(words) |-> Append(words[i], " ")]

\* The content chunks a handler cuts a text into.
ChunksOf(handler, text) ==
    IF handler = "claude" THEN wordsWithSpace(text)
    ELSE splitResponseIntoChunks(text)

\* Calls of Init after the first one.
MaxInits == 1

\* Nothing sent by a GenerateContent call.
NoWire == [form |-> <<"-">>, query |-> <<"-">>]

\* The alternative ports the server tries, and the requests the server
\* accepts.
MaxAltPorts == 2
MaxRequests == 2

\* The applications buildApp makes: the one for the configured port, one
\* for each alternative port, one for the random port.
NoApp == <<"none", 0>>
App == <<"app", 0>>
AltApp(k) == <<"altApp", k>>
RandomPortApp == <<"randomPortApp", 0>>

\* The two server packages of the repository.
ServerVersions == { "server.go", "part_002" }

\* No server built.  app is the application the stop hook shuts down, inst
\* the one whose Listen the start goroutine is in, listening the one that
\* accepts connections.
NoSrv ==
    [version |-> "none", stage |-> "none", app |-> NoApp, inst |-> NoApp,
     listening |-> NoApp, attempt |-> 0, stopped |-> FALSE, inflight |-> 0,
     served |-> 0]

\* No answer is being cut.
NoEmit == [handler |-> "none", text |-> <<>>, chunks |-> <<>>, i |-> 0, out |-> <<>>]

\* ------------------------------------------------- locks, step by step
\* Calls of RotateCookies from outside the client.
MaxDemands == 1

\* The threads whose RotateCookies is followed step by step: the rotation
\* loop and a caller of the public method.
Rotators == { "loop", "rotator" }

\* The locals of RotateCookies: the secrets put in the Cookie header, the
\* cookies of the answer, the index of the range loop and found.
NoRc == [hdr |-> <<>>, cks |-> <<>>, i |-> 0, found |-> FALSE]

\* What a reader copies: GetCookies the rotating secret and UpdatedAt,
\* ToHTTPCookies the rotating and the context secret.  Unread fields are
\* <<"-">>, an unread stamp is -1.
NoSnap == [op |-> "", ts |-> <<"-">>, cc |-> <<"-">>, upd |-> 0 - 1]
ReaderOps == { "GetCookies", "ToHTTPCookies" }

\* The values of a credential set that a rotation changes.
Creds(ck) ==
    [ts |-> ck.Secure1PSIDTS, cc |-> ck.Secure1PSIDCC, upd |-> ck.UpdatedAt]

\* The secrets of a credential set as RotateCookies puts them in the header.
Header(ck) == << ck.Secure1PSID, ck.Secure1PSIDTS, ck.Secure1PSIDCC >>

NoLedger == [commits |-> {}, left |-> <<>>]

\* ------------------------------------------------------------------ state
Gens == {"g1", "g2"}
Threads == {"init", "loop", "closer", "rotator", "reader"} \cup Gens

VARIABLES
    cookies,        \* CookieStore: Secure1PSID, Secure1PSIDTS, Secure1PSIDCC, UpdatedAt
    cookiesMu,      \* CookieStore.mu: "" when free, else the thread holding it
    at,             \* Client.at, the nonce
    healthy,        \* Client.healthy
    reqMu,          \* Client.reqMu: "" when free, else the thread holding it
    stopRefresh,    \* TRUE once the channel Client.stopRefresh is closed
    files,          \* the cache files under .cookies
    pc,             \* where each thread is
    initErr,        \* what Init returned: "running", "" (nil) or the error
    hsErr,          \* Init's local err: "unset", "" (nil) or the error
    initLog,        \* the rotations and handshakes Init has finished, in order
    genRes,         \* what the last GenerateContent call of a thread returned
    genReqs,        \* HTTP requests issued by the current call of a thread
    ticks,          \* ticks of the rotation ticker the loop has taken
    failedTicks,    \* scheduled rotations that returned an error
    world,          \* what the servers and the disk can answer (never changes)
    rotLog,         \* when switched on, the RotateCookies calls that returned
    parseIn,        \* a response body handed to parseResponse on its own
    parseOut,       \* what parseResponse returned for parseIn
    chat,           \* the chat session of a caller and the requests it caused
    stream,         \* a simulated stream: where its handler is, what it wrote
    genCtx,         \* the context a GenerateContent caller passes: "live" or "done"
    envRefresh,     \* GEMINI_REFRESH_INTERVAL in the environment ("" when unset)
    refreshInterval, \* Client.refreshInterval in minutes, 0 before NewClient
    runs,           \* the secrets and nonce of two clients that are compared
    runErrs,        \* the text of the error the same call returned in each
    rc,             \* RotateCookies of a thread, step by step: its locals
    mu,             \* Client.mu: "" when free, else the thread holding it
    snap,           \* what the reader has copied out of the credential set
    ledger,         \* the credential sets that rotations left behind
    demands,        \* calls of RotateCookies from outside the client
    warm,           \* how the warm-up requests of the handshake under way ended
    emit,           \* a handler cutting an answer into content chunks
    wire,           \* the nonce each GenerateContent put in the form and the query
    inits,          \* calls of Init after the first one
    loops,          \* startAutoRefresh goroutines running besides the first
    srv             \* the HTTP server: its applications and its stop hook

vars == << cookies, cookiesMu, at, healthy, reqMu, stopRefresh,
           files, pc, initErr, hsErr, initLog, genRes, genReqs, ticks,
           failedTicks, world, rotLog, parseIn, parseOut, chat, stream,
           genCtx, envRefresh, refreshInterval, runs, runErrs,
           rc, mu, snap, ledger, demands, warm, emit,
           wire, inits, loops, srv >>

clientVars == << cookies, cookiesMu, at, healthy, files >>
initVars == << initErr, hsErr, initLog >>
genVars == << reqMu, genRes, genReqs >>
loopVars == << ticks, failedTicks >>
intervalVars == << envRefresh, refreshInterval >>
leakVars == << runs, runErrs >>
lockVars == << rc, mu, snap, ledger, demands >>
reinitVars == << wire, inits, loops >>
extraVars == << warm, emit, reinitVars, srv >>
probeVars == << genCtx, intervalVars, leakVars, lockVars, extraVars >>
harnessVars == << parseIn, parseOut, chat, stream, probeVars >>

\* The servers can answer with any of the answers of the model and a change
\* of the cache file can fail.
AnyWorld ==
    [landing |-> LandingBodies, landingOk |-> BOOLEAN,
     rot |-> RotResponses, disk |-> DiskWriteOutcomes]

\* The log of rotations, switched off.
NoRotLog == [on |-> FALSE, calls |-> <<>>]

\* NewClient: the client built from a configuration.
NewClient(psid, psidts, psidcc) ==
    /\ cookies = [Secure1PSID |-> psid, Secure1PSIDTS |-> psidts,
                  Secure1PSIDCC |-> psidcc, UpdatedAt |-> 0]
    /\ cookiesMu = ""
    /\ at = <<>>
    /\ healthy = FALSE
    /\ reqMu = ""
    /\ stopRefresh = FALSE

\* The program when main has built the client and no thread has moved.
InitProgram ==
    /\ \E psid \in CfgPSID, psidts \in CfgPSIDTS, psidcc \in CfgPSIDCC :
          NewClient(psid, psidts, psidcc)
    /\ files \in InitialCaches
    /\ pc = [t \in Threads |->
               CASE t = "init" -> "i_start"
                 [] t = "loop" -> "l_none"
                 [] t = "closer" -> "c_idle"
                 [] t = "rotator" -> "o_idle"
                 [] t = "reader" -> "r_idle"
                 [] OTHER -> "g_idle"]
    /\ initErr = "running"
    /\ hsErr = "unset"
    /\ initLog = <<>>
    /\ genRes = [g \in Gens |-> NoResp]
    /\ genReqs = [g \in Gens |-> 0]
    /\ ticks = 0
    /\ failedTicks = 0

\* No thread is inside a RotateCookies that is followed step by step,
\* Client.mu is free, nothing was copied.
LocksIdle ==
    /\ rc = [t \in Rotators |-> NoRc]
    /\ mu = ""
    /\ snap = NoSnap
    /\ ledger = NoLedger
    /\ demands = 0

\* No handshake has made its warm-up requests.
ExtrasIdle ==
    /\ warm = "none"
    /\ emit = NoEmit
    /\ wire = [g \in Gens |-> NoWire]
    /\ inits = 0
    /\ loops = 0
    /\ srv = NoSrv

\* No caller has given up.
ProbesIdle ==
    /\ genCtx = [g \in Gens |-> "live"]
    /\ envRefresh = <<>>
    /\ refreshInterval = defaultGeminiRefreshInterval
    /\ runs = <<>>
    /\ runErrs = <<>>
    /\ LocksIdle
    /\ ExtrasIdle

\* Nothing is handed to an operation on its own.
HarnessIdle ==
    /\ parseIn = <<>>
    /\ parseOut = NoResp
    /\ chat = NoChat
    /\ stream = NoStream
    /\ ProbesIdle

Init ==
    /\ InitProgram
    /\ world = AnyWorld
    /\ rotLog = NoRotLog
    /\ HarnessIdle

Goto(t, l) == pc' = [pc EXCEPT ![t] = l]

\* ------------------------------------------------------------------- Init
\* Fault variant: a cached value is used even when the configuration
\* supplies a rotating secret.
InitResolve_CacheWins ==
    /\ pc["init"] = "i_start"
    /\ \E removed \in world.disk :
       LET configPSIDTS == cleanCookie(cookies.Secure1PSIDTS)
           ck0 == [cookies EXCEPT !.Secure1PSID = cleanCookie(cookies.Secure1PSID),
                                  !.Secure1PSIDTS = configPSIDTS,
                                  !.Secure1PSIDCC = cleanCookie(cookies.Secure1PSIDCC)]
           cached == LoadCachedCookies(ck0, files)
           clear == ck0.Secure1PSID # <<>> /\ configPSIDTS # <<>>
                    /\ cached.ts # <<>> /\ configPSIDTS # cached.ts
           useCache == ck0.Secure1PSID # <<>> /\ cached.err = ""
                       /\ cached.ts # <<>>
           ck1 == IF useCache THEN [ck0 EXCEPT !.Secure1PSIDTS = cached.ts] ELSE ck0
       IN  /\ cookies' = ck1
           /\ files' = IF clear THEN ClearCookieCache(ck0, files, removed) ELSE files
           /\ IF ck1.Secure1PSID # <<>> /\ ck1.Secure1PSIDTS = <<>>
              THEN Goto("init", "i_prerot_wait")
              ELSE Goto("init", "i_populate")
    /\ UNCHANGED << cookiesMu, at, healthy, stopRefresh >>
    /\ UNCHANGED << initVars, genVars, loopVars >>
    /\ UNCHANGED << world, rotLog, harnessVars >>

\* Init, lines 101-131: clean the secrets, resolve configuration against
\* the cache, and decide whether a rotation is needed first.
InitResolve ==
    /\ pc["init"] = "i_start"
    /\ \E removed \in world.disk :
       LET configPSIDTS == cleanCookie(cookies.Secure1PSIDTS)
           ck0 == [cookies EXCEPT !.Secure1PSID = cleanCookie(cookies.Secure1PSID),
                                  !.Secure1PSIDTS = configPSIDTS,
                                  !.Secure1PSIDCC = cleanCookie(cookies.Secure1PSIDCC)]
           cached == LoadCachedCookies(ck0, files)
           clear == ck0.Secure1PSID # <<>> /\ configPSIDTS # <<>>
                    /\ cached.ts # <<>> /\ configPSIDTS # cached.ts
           useCache == ck0.Secure1PSID # <<>> /\ ~clear /\ cached.err = ""
                       /\ cached.ts # <<>> /\ configPSIDTS = <<>>
           ck1 == IF useCache THEN [ck0 EXCEPT !.Secure1PSIDTS = cached.ts] ELSE ck0
       IN  /\ cookies' = ck1
           /\ files' = IF clear THEN ClearCookieCache(ck0, files, removed) ELSE files
           /\ IF ck1.Secure1PSID # <<>> /\ ck1.Secure1PSIDTS = <<>>
              THEN Goto("init", "i_prerot_wait")
              ELSE Goto("init", "i_populate")
    /\ UNCHANGED << cookiesMu, at, healthy, stopRefresh >>
    /\ UNCHANGED << initVars, genVars, loopVars >>
    /\ UNCHANGED << world, rotLog, harnessVars >>

\* ---------------------------------------------------------- RotateCookies
\* RotateCookies up to the request: take CookieStore.mu, build the Cookie
\* header from the fields and send the POST.  t calls it from pc[t] = from.
RotateSend(t, from, to) ==
    /\ pc[t] = from
    /\ cookiesMu = ""
    /\ cookiesMu' = t
    /\ Goto(t, to)

\* RotateCookies from the answer to the return; the deferred Unlock runs.
RotateFinish(t, resp, written) ==
    LET o == RotateOutcome(resp, cookies, files, written)
    IN  /\ cookiesMu = t
        /\ cookies' = o.ck
        /\ files' = o.fs
        /\ cookiesMu' = ""
        /\ rotLog' = IF rotLog.on
                     THEN [rotLog EXCEPT !.calls =
                              Append(@, [resp |-> resp, err |-> o.err,
                                         psid |-> cookies.Secure1PSID])]
                     ELSE rotLog

RotateErr(resp, written) ==
    RotateOutcome(resp, cookies, files, written).err

\* Init, line 126: the rotation tried when only the long-lived secret is
\* there.  Its error is logged and Init goes on.
InitPreRotateSend ==
    /\ RotateSend("init", "i_prerot_wait", "i_prerot_flight")
    /\ UNCHANGED << cookies, at, healthy, files, stopRefresh >>
    /\ UNCHANGED << initVars, genVars, loopVars >>
    /\ UNCHANGED << world, rotLog, harnessVars >>

\* Fault variant: a failure of the first rotation ends Init with its error.
InitPreRotateDone_Abort ==
    /\ pc["init"] = "i_prerot_flight"
    /\ \E resp \in world.rot, written \in world.disk :
          /\ RotateFinish("init", resp, written)
          /\ initLog' = Append(initLog,
                 IF RotateErr(resp, written) = "" THEN "rot_ok" ELSE "rot_fail")
          /\ IF RotateErr(resp, written) = ""
             THEN Goto("init", "i_populate") /\ UNCHANGED initErr
             ELSE Goto("init", "i_done") /\ initErr' = RotateErr(resp, written)
    /\ UNCHANGED << at, healthy, stopRefresh, hsErr >>
    /\ UNCHANGED << genVars, loopVars >>
    /\ UNCHANGED << world, harnessVars >>

InitPreRotateDone ==
    /\ pc["init"] = "i_prerot_flight"
    /\ \E resp \in world.rot, written \in world.disk :
          /\ RotateFinish("init", resp, written)
          /\ initLog' = Append(initLog,
                 IF RotateErr(resp, written) = "" THEN "rot_ok" ELSE "rot_fail")
    /\ Goto("init", "i_populate")
    /\ UNCHANGED << at, healthy, stopRefresh, initErr, hsErr >>
    /\ UNCHANGED << genVars, loopVars >>
    /\ UNCHANGED << world, harnessVars >>

\* Fault variant: the rotation loop is started before the handshake.
InitPopulate_SpawnEarly ==
    /\ pc["init"] = "i_populate"
    /\ cookiesMu = ""
    /\ pc' = [pc EXCEPT !["init"] = "i_hs1_warm", !["loop"] = "l_select"]
    /\ UNCHANGED << cookies, cookiesMu, at, healthy, files, stopRefresh >>
    /\ UNCHANGED << initVars, genVars, loopVars >>
    /\ UNCHANGED << world, rotLog, harnessVars >>

\* Init, line 134: c.httpClient.SetCommonCookies(c.cookies.ToHTTPCookies()...)
\* ToHTTPCookies reads the secrets under CookieStore.mu (RLock).  The cookie
\* list of the HTTP client is only ever appended to by the client's code and
\* is not part of the state.
InitPopulate ==
    /\ pc["init"] = "i_populate"
    /\ cookiesMu = ""
    /\ Goto("init", "i_hs1_warm")
    /\ UNCHANGED << cookies, cookiesMu, at, healthy, files, stopRefresh >>
    /\ UNCHANGED << initVars, genVars, loopVars >>
    /\ UNCHANGED << world, rotLog, harnessVars >>

\* ----------------------------------------------------- refreshSessionToken
InHandshake(l) == l \in {"i_hs1_warm", "i_hs1_land", "i_hs2_warm", "i_hs2_land"}

\* refreshSessionToken, lines 167-252: the warm-up requests to
\* www.google.com and gemini.google.com/?hl=en.  Their cookies go to the
\* Cookie header and the HTTP client's list, a failure is ignored: neither
\* outcome changes the state.
HsWarmup ==
    /\ pc["init"] \in {"i_hs1_warm", "i_hs2_warm"}
    /\ Goto("init", IF pc["init"] = "i_hs1_warm" THEN "i_hs1_land" ELSE "i_hs2_land")
    /\ UNCHANGED << cookies, cookiesMu, at, healthy, files, stopRefresh >>
    /\ UNCHANGED << initVars, genVars, loopVars >>
    /\ UNCHANGED << world, rotLog, harnessVars >>

\* What the landing-page request yields: "" for a transport failure, else
\* the body read.
LandingOutcome(ok, body) ==
    IF ~ok THEN [err |-> ErrReach, at |-> <<>>] ELSE ExtractNonce(body)

\* refreshSessionToken, lines 254-311, and Init's handling of its result
\* (lines 137-151): the landing-page request, the extraction, the store of
\* the nonce; then the retry path or the return.
HsLanding ==
    /\ pc["init"] \in {"i_hs1_land", "i_hs2_land"}
    /\ \E ok \in world.landingOk, body \in world.landing :
          LET r == LandingOutcome(ok, body)
          IN  /\ IF r.err = ""
                 THEN at' = r.at /\ healthy' = TRUE
                 ELSE UNCHANGED << at, healthy >>
              /\ hsErr' = r.err
              /\ initLog' = Append(initLog, IF r.err = "" THEN "hs_ok" ELSE "hs_fail")
              /\ IF r.err = ""
                 THEN Goto("init", "i_finish") /\ UNCHANGED initErr
                 ELSE IF pc["init"] = "i_hs1_land"
                 THEN Goto("init", "i_rot_wait") /\ UNCHANGED initErr
                 ELSE Goto("init", "i_done") /\ initErr' = r.err
    /\ UNCHANGED << cookies, cookiesMu, files, stopRefresh >>
    /\ UNCHANGED << genVars, loopVars >>
    /\ UNCHANGED << world, rotLog, harnessVars >>

\* Init, line 141: the rotation after a failed first handshake.
InitRotateSend ==
    /\ RotateSend("init", "i_rot_wait", "i_rot_flight")
    /\ UNCHANGED << cookies, at, healthy, files, stopRefresh >>
    /\ UNCHANGED << initVars, genVars, loopVars >>
    /\ UNCHANGED << world, rotLog, harnessVars >>

\* Fault variant: the handshake is retried whatever the rotation returned.
InitRotateDone_AlwaysRetry ==
    /\ pc["init"] = "i_rot_flight"
    /\ \E resp \in world.rot, written \in world.disk :
          /\ RotateFinish("init", resp, written)
          /\ initLog' = Append(initLog,
                 IF RotateErr(resp, written) = "" THEN "rot_ok" ELSE "rot_fail")
    /\ Goto("init", "i_hs2_warm")
    /\ UNCHANGED << at, healthy, stopRefresh, hsErr, initErr >>
    /\ UNCHANGED << genVars, loopVars >>
    /\ UNCHANGED << world, harnessVars >>

\* Init, lines 141-151: the handshake is retried when the rotation
\* succeeded; otherwise err of the first handshake is returned.
InitRotateDone ==
    /\ pc["init"] = "i_rot_flight"
    /\ \E resp \in world.rot, written \in world.disk :
          /\ RotateFinish("init", resp, written)
          /\ IF RotateErr(resp, written) = ""
             THEN /\ initLog' = Append(initLog, "rot_ok")
                  /\ Goto("init", "i_hs2_warm")
                  /\ UNCHANGED initErr
             ELSE /\ initLog' = Append(initLog, "rot_fail")
                  /\ Goto("init", "i_done")
                  /\ initErr' = hsErr
    /\ UNCHANGED << at, healthy, stopRefresh, hsErr >>
    /\ UNCHANGED << genVars, loopVars >>
    /\ UNCHANGED << world, harnessVars >>

\* Fault variant: Init returns without saving the rotating secret.
InitFinish_NoSave ==
    /\ pc["init"] = "i_finish"
    /\ pc' = [pc EXCEPT !["init"] = "i_done", !["loop"] = "l_select"]
    /\ initErr' = ""
    /\ UNCHANGED << cookies, cookiesMu, at, healthy, stopRefresh, files >>
    /\ UNCHANGED << hsErr, initLog, genVars, loopVars >>
    /\ UNCHANGED << world, rotLog, harnessVars >>

\* Init, lines 153-163: save the cache, start the rotation loop, return nil.
InitFinish ==
    /\ pc["init"] = "i_finish"
    /\ \E written \in world.disk :
          files' = SaveCachedCookies(cookies, files, written)
    /\ pc' = [pc EXCEPT !["init"] = "i_done", !["loop"] = "l_select"]
    /\ initErr' = ""
    /\ UNCHANGED << cookies, cookiesMu, at, healthy, stopRefresh >>
    /\ UNCHANGED << hsErr, initLog, genVars, loopVars >>
    /\ UNCHANGED << world, rotLog, harnessVars >>

\* -------------------------------------------------------- startAutoRefresh
\* The select takes the ticker case: RotateCookies is called.
LoopTick ==
    /\ pc["loop"] = "l_select"
    /\ ticks < MaxTicks
    /\ ticks' = ticks + 1
    /\ Goto("loop", "l_rot_wait")
    /\ UNCHANGED << clientVars, stopRefresh, initVars, genVars, failedTicks >>
    /\ UNCHANGED << world, rotLog, harnessVars >>

LoopRotateSend ==
    /\ RotateSend("loop", "l_rot_wait", "l_rot_flight")
    /\ UNCHANGED << cookies, at, healthy, files, stopRefresh >>
    /\ UNCHANGED << initVars, genVars, loopVars >>
    /\ UNCHANGED << world, rotLog, harnessVars >>

\* Fault variant: the loop returns when a scheduled rotation fails.
LoopRotateDone_ExitOnError ==
    /\ pc["loop"] = "l_rot_flight"
    /\ \E resp \in world.rot, written \in world.disk :
          /\ RotateFinish("loop", resp, written)
          /\ failedTicks' = IF RotateErr(resp, written) = ""
                            THEN failedTicks ELSE failedTicks + 1
          /\ Goto("loop", IF RotateErr(resp, written) = "" THEN "l_select" ELSE "l_exit")
    /\ UNCHANGED << at, healthy, stopRefresh, ticks >>
    /\ UNCHANGED << initVars, genVars >>
    /\ UNCHANGED << world, harnessVars >>

\* The rotation of a tick returns; an error is logged and the loop selects
\* again.
LoopRotateDone ==
    /\ pc["loop"] = "l_rot_flight"
    /\ \E resp \in world.rot, written \in world.disk :
          /\ RotateFinish("loop", resp, written)
          /\ failedTicks' = IF RotateErr(resp, written) = ""
                            THEN failedTicks ELSE failedTicks + 1
    /\ Goto("loop", "l_select")
    /\ UNCHANGED << at, healthy, stopRefresh, ticks >>
    /\ UNCHANGED << initVars, genVars >>
    /\ UNCHANGED << world, harnessVars >>

\* Fault variant: the stop signal ends the loop wherever it is, dropping a
\* rotation that is waiting or in flight.
LoopStop_Abort ==
    /\ pc["loop"] \in {"l_select", "l_rot_wait", "l_rot_flight"}
    /\ stopRefresh
    /\ Goto("loop", "l_exit")
    /\ cookiesMu' = IF cookiesMu = "loop" THEN "" ELSE cookiesMu
    /\ UNCHANGED << cookies, at, healthy, files, stopRefresh >>
    /\ UNCHANGED << initVars, genVars, loopVars >>
    /\ UNCHANGED << world, rotLog, harnessVars >>

\* The select takes the case <-c.stopRefresh: the loop returns.
LoopStop ==
    /\ pc["loop"] = "l_select"
    /\ stopRefresh
    /\ Goto("loop", "l_exit")
    /\ UNCHANGED << clientVars, stopRefresh, initVars, genVars, loopVars >>
    /\ UNCHANGED << world, rotLog, harnessVars >>

\* ---------------------------------------------------------- GenerateContent
\* A caller enters GenerateContent.
GenCall(g) ==
    /\ pc[g] = "g_idle"
    /\ Goto(g, "g_wait")
    /\ genRes' = [genRes EXCEPT ![g] = NoResp]
    /\ genReqs' = [genReqs EXCEPT ![g] = 0]
    /\ UNCHANGED << clientVars, stopRefresh, reqMu, initVars, loopVars >>
    /\ UNCHANGED << world, rotLog, harnessVars >>

\* Fault variant: the call goes on without waiting for reqMu.
GenLock_NoMutex(g) ==
    /\ pc[g] = "g_wait"
    /\ reqMu' = g
    /\ Goto(g, "g_locked")
    /\ UNCHANGED << clientVars, stopRefresh, genRes, genReqs, initVars, loopVars >>
    /\ UNCHANGED << world, rotLog, harnessVars >>

\* c.reqMu.Lock()
GenLock(g) ==
    /\ pc[g] = "g_wait"
    /\ reqMu = ""
    /\ reqMu' = g
    /\ Goto(g, "g_locked")
    /\ UNCHANGED << clientVars, stopRefresh, genRes, genReqs, initVars, loopVars >>
    /\ UNCHANGED << world, rotLog, harnessVars >>

\* Fault variant: the request is sent without looking at the nonce.
GenDispatch_NoCheck(g) ==
    /\ pc[g] = "g_locked"
    /\ genReqs' = [genReqs EXCEPT ![g] = @ + 1]
    /\ Goto(g, "g_flight")
    /\ UNCHANGED << genRes, reqMu >>
    /\ UNCHANGED << clientVars, stopRefresh, initVars, loopVars >>
    /\ UNCHANGED << world, rotLog, harnessVars >>

\* Fault variant: the cookies are read through the locking accessor before
\* the request is sent, so the call waits for CookieStore.mu.
GenDispatch_ReadsCookies(g) ==
    /\ pc[g] = "g_locked"
    /\ cookiesMu = ""
    /\ IF at = <<>>
       THEN /\ genRes' = [genRes EXCEPT ![g] = Resp(ErrNotInit, 0, NoText)]
            /\ reqMu' = ""
            /\ Goto(g, "g_idle")
            /\ UNCHANGED genReqs
       ELSE /\ genReqs' = [genReqs EXCEPT ![g] = @ + 1]
            /\ Goto(g, "g_flight")
            /\ UNCHANGED << genRes, reqMu >>
    /\ UNCHANGED << clientVars, stopRefresh, initVars, loopVars >>
    /\ UNCHANGED << world, rotLog, harnessVars >>

\* Fault variant: the precondition failure returns without the deferred
\* Unlock.
GenDispatch_KeepsLock(g) ==
    /\ pc[g] = "g_locked"
    /\ IF at = <<>>
       THEN /\ genRes' = [genRes EXCEPT ![g] = Resp(ErrNotInit, 0, NoText)]
            /\ Goto(g, "g_idle")
            /\ UNCHANGED << genReqs, reqMu >>
       ELSE /\ genReqs' = [genReqs EXCEPT ![g] = @ + 1]
            /\ Goto(g, "g_flight")
            /\ UNCHANGED << genRes, reqMu >>
    /\ UNCHANGED << clientVars, stopRefresh, initVars, loopVars >>
    /\ UNCHANGED << world, rotLog, harnessVars >>

\* Lines 419-442: the precondition, then the envelope is built and the POST
\* is sent.
GenDispatch(g) ==
    /\ pc[g] = "g_locked"
    /\ IF at = <<>>
       THEN /\ genRes' = [genRes EXCEPT ![g] = Resp(ErrNotInit, 0, NoText)]
            /\ reqMu' = ""
            /\ Goto(g, "g_idle")
            /\ UNCHANGED genReqs
       ELSE /\ genReqs' = [genReqs EXCEPT ![g] = @ + 1]
            /\ Goto(g, "g_flight")
            /\ UNCHANGED << genRes, reqMu >>
    /\ UNCHANGED << clientVars, stopRefresh, initVars, loopVars >>
    /\ UNCHANGED << world, rotLog, harnessVars >>

GenStatuses == {StatusOK, 401}

\* What GenerateContent returns for an answer of the endpoint.
GenOutcome(ok, status, body) ==
    IF ~ok THEN Resp(ErrTransport, 0, NoText)
    ELSE IF status # StatusOK THEN Resp(ErrStatus, status, NoText)
    ELSE parseResponse(body)

\* Fault variant: a failed request is sent once more before giving up.
GenDone_Retry(g) ==
    /\ pc[g] = "g_flight"
    /\ \E ok \in BOOLEAN, status \in GenStatuses, body \in GenBodies :
          LET r == GenOutcome(ok, status, body)
          IN  IF r.err # "" /\ genReqs[g] < 2
              THEN /\ genReqs' = [genReqs EXCEPT ![g] = @ + 1]
                   /\ UNCHANGED << pc, genRes, reqMu >>
              ELSE /\ genRes' = [genRes EXCEPT ![g] = r]
                   /\ reqMu' = ""
                   /\ Goto(g, "g_idle")
                   /\ UNCHANGED genReqs
    /\ UNCHANGED << clientVars, stopRefresh, initVars, loopVars >>
    /\ UNCHANGED << world, rotLog, harnessVars >>

\* Lines 444-453: the answer arrives, the result is returned and the
\* deferred Unlock runs.
\* Fault variant: an answer with a status other than 200 makes the client
\* drop its nonce.
GenDone_DropsNonce(g) ==
    /\ pc[g] = "g_flight"
    /\ \E ok \in BOOLEAN, status \in GenStatuses, body \in GenBodies :
          /\ genRes' = [genRes EXCEPT ![g] = GenOutcome(ok, status, body)]
          /\ at' = IF ok /\ status # StatusOK THEN <<>> ELSE at
    /\ reqMu' = ""
    /\ Goto(g, "g_idle")
    /\ UNCHANGED << cookies, cookiesMu, healthy, files >>
    /\ UNCHANGED << stopRefresh, genReqs, initVars, loopVars >>
    /\ UNCHANGED << world, rotLog, harnessVars >>

GenDone(g) ==
    /\ pc[g] = "g_flight"
    /\ \E ok \in BOOLEAN, status \in GenStatuses, body \in GenBodies :
          genRes' = [genRes EXCEPT ![g] = GenOutcome(ok, status, body)]
    /\ reqMu' = ""
    /\ Goto(g, "g_idle")
    /\ UNCHANGED << clientVars, stopRefresh, genReqs, initVars, loopVars >>
    /\ UNCHANGED << world, rotLog, harnessVars >>

\* The caller of GenerateContent cancels its context, or the deadline of the
\* context passes.  GenerateContent never hands ctx to the request it sends,
\* so nothing in the call is waiting for this.
GenCancel(g) ==
    /\ genCtx[g] = "live"
    /\ genCtx' = [genCtx EXCEPT ![g] = "done"]
    /\ UNCHANGED << clientVars, stopRefresh, pc, initVars, genVars, loopVars >>
    /\ UNCHANGED << world, rotLog, parseIn, parseOut, chat, stream, intervalVars,
                    leakVars, lockVars, extraVars >>

\* ------------------------------------------------------------------ Close
\* close(c.stopRefresh)
CloseStop ==
    /\ pc["closer"] = "c_idle"
    /\ stopRefresh' = TRUE
    /\ Goto("closer", "c_closing")
    /\ UNCHANGED << clientVars, initVars, genVars, loopVars >>
    /\ UNCHANGED << world, rotLog, harnessVars >>

\* c.healthy = false under c.mu; return nil
CloseHealth ==
    /\ pc["closer"] = "c_closing"
    /\ healthy' = FALSE
    /\ Goto("closer", "c_done")
    /\ UNCHANGED << cookies, cookiesMu, at, files, stopRefresh >>
    /\ UNCHANGED << initVars, genVars, loopVars >>
    /\ UNCHANGED << world, rotLog, harnessVars >>

\* ---------------------------------------------------------- specification
Next ==
    \/ InitResolve
    \/ InitPreRotateSend
    \/ InitPreRotateDone
    \/ InitPopulate
    \/ HsWarmup
    \/ HsLanding
    \/ InitRotateSend
    \/ InitRotateDone
    \/ InitFinish
    \/ LoopTick
    \/ LoopRotateSend
    \/ LoopRotateDone
    \/ LoopStop
    \/ \E g \in Gens : GenCall(g)
    \/ \E g \in Gens : GenLock(g)
    \/ \E g \in Gens : GenDispatch(g)
    \/ \E g \in Gens : GenDone(g)
    \/ CloseStop
    \/ CloseHealth

Spec == Init /\ [][Next]_vars

\* The life cycle of the client without GenerateContent callers, which share
\* no variable with Init, the rotation loop and Close.
NextLifecycle ==
    \/ InitResolve
    \/ InitPreRotateSend
    \/ InitPreRotateDone
    \/ InitPopulate
    \/ HsWarmup
    \/ HsLanding
    \/ InitRotateSend
    \/ InitRotateDone
    \/ InitFinish
    \/ LoopTick
    \/ LoopRotateSend
    \/ LoopRotateDone
    \/ LoopStop
    \/ CloseStop
    \/ CloseHealth

\* Fairness of the rotation loop: its rotation request has a timeout, so a
\* rotation that was called is sent once CookieStore.mu is free and returns;
\* the select of the loop picks at random among its ready cases, so it takes
\* the stop case if that is ready again and again.
FairSpec ==
    /\ Init
    /\ [][NextLifecycle]_vars
    /\ WF_vars(LoopRotateSend)
    /\ WF_vars(LoopRotateDone)
    /\ SF_vars(LoopStop)

\* The program once Init has returned nil and the refresh loop waits.
Serving ==
    /\ cookies = [Secure1PSID |-> PSID_abc, Secure1PSIDTS |-> TS_new2,
                  Secure1PSIDCC |-> CC_new, UpdatedAt |-> 1]
    /\ cookiesMu = ""
    /\ at = NonceA
    /\ healthy = TRUE
    /\ reqMu = ""
    /\ stopRefresh = FALSE
    /\ files = (CacheFile(PSID_abc) :> TS_new2)
    /\ pc = [t \in Threads |->
               CASE t = "init" -> "i_done"
                 [] t = "loop" -> "l_select"
                 [] t = "closer" -> "c_idle"
                 [] t = "rotator" -> "o_idle"
                 [] t = "reader" -> "r_idle"
                 [] OTHER -> "g_idle"]
    /\ initErr = ""
    /\ hsErr = ""
    /\ initLog = <<"rot_ok", "hs_ok">>
    /\ genRes = [g \in Gens |-> NoResp]
    /\ genReqs = [g \in Gens |-> 0]
    /\ ticks = 0
    /\ failedTicks = 0

\* main: config.New reads the environment and NewClient builds the client
\* from what it loaded.
LoadAndBuild ==
    /\ refreshInterval = 0
    /\ refreshInterval' =
         NewClientInterval(getEnvInt(envRefresh, defaultGeminiRefreshInterval))
    /\ UNCHANGED << clientVars, stopRefresh, pc, initVars, genVars, loopVars >>
    /\ UNCHANGED << world, rotLog, parseIn, parseOut, chat, stream, genCtx,
                    envRefresh, leakVars, lockVars, extraVars >>

\* The program before main has loaded the configuration.
InitInterval ==
    /\ InitProgram
    /\ world = AnyWorld
    /\ rotLog = NoRotLog
    /\ parseIn = <<>>
    /\ parseOut = NoResp
    /\ chat = NoChat
    /\ stream = NoStream
    /\ genCtx = [g \in Gens |-> "live"]
    /\ envRefresh \in EnvValues
    /\ refreshInterval = 0
    /\ runs = <<>>
    /\ runErrs = <<>>
    /\ LocksIdle
    /\ ExtrasIdle

SpecInterval == InitInterval /\ [][LoadAndBuild]_vars

\* ------------------------------------------------------------- error texts
EndpointInit == "https://gemini.google.com/app"
EndpointGenerate == "https://gemini.google.com/_/BardChatUi/data/assistant.lamda.BardFrontendService/StreamGenerate"
EndpointRotateCookies == "https://accounts.google.com/RotateCookies"

\* The text of the error that the HTTP client returns for a request that
\* got no answer: net/http reports the method, the URL of the request with
\* its query, and the cause.  A text is a sequence of pieces.
UrlError(op, url) == <<op, " \"">> \o url \o <<"\": ", "connection refused">>

\* %d of a status code.
StatusText(status) == IF status = StatusOK THEN "200" ELSE "401"

\* The text of the error refreshSessionToken returns, <<>> for nil.
HandshakeErrorText(ok, body) ==
    LET e == LandingOutcome(ok, body).err
    IN  IF e = "" THEN <<>>
        ELSE IF e = ErrReach
        THEN <<"failed to reach gemini app: ">>
               \o UrlError("Get", <<EndpointInit, "?hl=en">>)
        ELSE <<e>>

\* The text of the error RotateCookies returns for a credential set.
RotateErrorText(resp, ck) ==
    LET e == RotateOutcome(resp, ck, NoFiles, TRUE).err
    IN  IF e = "" THEN <<>>
        ELSE IF e = ErrRotCall
        THEN <<"failed to call rotation endpoint: ">>
               \o UrlError("Post", <<EndpointRotateCookies>>)
        ELSE IF e = ErrRotStatus
        THEN <<"rotation failed with status ", StatusText(resp.status)>>
        ELSE <<e>>

\* The text of the error GenerateContent returns for a nonce: the error of
\* the request is returned as it is, and the request carries the nonce as
\* the query parameter at.
GenerateErrorText(nonce, ok, status, body) ==
    IF nonce = <<>> THEN <<ErrNotInit>>
    ELSE LET e == GenOutcome(ok, status, body).err
         IN  IF e = "" THEN <<>>
             ELSE IF e = ErrTransport
             THEN UrlError("Post", <<EndpointGenerate, "?at=">> \o nonce)
             ELSE IF e = ErrStatus
             THEN <<"generate failed with status: ", StatusText(status)>>
             ELSE <<e>>

\* The secrets and the nonce a client can hold when a call is made; two
\* clients that are compared hold values in the same places.
SecretSets ==
    [Secure1PSID : {PSID_abc, PSID_other}, Secure1PSIDTS : {TS_old, TS_new1},
     Secure1PSIDCC : {CC_new}, nonce : {<<>>, NonceA, NonceB}]

RunPairs ==
    { p \in SecretSets \X SecretSets : (p[1].nonce = <<>>) = (p[2].nonce = <<>>) }

\* The credential set of a run.
RunCookies(r) ==
    [Secure1PSID |-> r.Secure1PSID, Secure1PSIDTS |-> r.Secure1PSIDTS,
     Secure1PSIDCC |-> r.Secure1PSIDCC, UpdatedAt |-> 0]

\* The same call is made on both clients and gets the same answer.
ReturnOfInit ==
    /\ \E ok \in world.landingOk, body \in world.landing :
          runErrs' = [i \in 1..2 |-> HandshakeErrorText(ok, body)]
    /\ UNCHANGED << clientVars, stopRefresh, pc, initVars, genVars, loopVars >>
    /\ UNCHANGED << world, rotLog, parseIn, parseOut, chat, stream, genCtx,
                    intervalVars, runs, lockVars, extraVars >>

ReturnOfRotateCookies ==
    /\ \E resp \in world.rot :
          runErrs' = [i \in 1..2 |-> RotateErrorText(resp, RunCookies(runs[i]))]
    /\ UNCHANGED << clientVars, stopRefresh, pc, initVars, genVars, loopVars >>
    /\ UNCHANGED << world, rotLog, parseIn, parseOut, chat, stream, genCtx,
                    intervalVars, runs, lockVars, extraVars >>

ReturnOfGenerateContent ==
    /\ \E ok \in BOOLEAN, status \in GenStatuses, body \in GenBodies :
          runErrs' = [i \in 1..2 |->
                        GenerateErrorText(runs[i].nonce, ok, status, body)]
    /\ UNCHANGED << clientVars, stopRefresh, pc, initVars, genVars, loopVars >>
    /\ UNCHANGED << world, rotLog, parseIn, parseOut, chat, stream, genCtx,
                    intervalVars, runs, lockVars, extraVars >>

\* Two clients that differ at most in the values of their secrets and nonce.
InitRuns ==
    /\ Serving
    /\ world = AnyWorld
    /\ rotLog = NoRotLog
    /\ parseIn = <<>>
    /\ parseOut = NoResp
    /\ chat = NoChat
    /\ stream = NoStream
    /\ genCtx = [g \in Gens |-> "live"]
    /\ envRefresh = <<>>
    /\ refreshInterval = defaultGeminiRefreshInterval
    /\ runs \in RunPairs
    /\ runErrs = <<>>
    /\ LocksIdle
    /\ ExtrasIdle

NextRuns ==
    \/ ReturnOfInit
    \/ ReturnOfRotateCookies
    \/ ReturnOfGenerateContent

SpecRuns == InitRuns /\ [][NextRuns]_vars

\* GenerateContent callers of a serving program, who can give up.
InitCancel ==
    /\ Serving
    /\ world = AnyWorld
    /\ rotLog = NoRotLog
    /\ HarnessIdle

NextCancel ==
    \/ \E g \in Gens : GenCall(g)
    \/ \E g \in Gens : GenLock(g)
    \/ \E g \in Gens : GenDispatch(g)
    \/ \E g \in Gens : GenDone(g)
    \/ \E g \in Gens : GenCancel(g)

SpecCancel == InitCancel /\ [][NextCancel]_vars

\* ---------------------------------------------- RotateCookies step by step
\* What no step of a rotation or of a reader changes.
lockFrame ==
    << at, healthy, reqMu, stopRefresh, initVars, genRes, genReqs, world, rotLog,
       parseIn, parseOut, chat, stream, genCtx, intervalVars, leakVars, mu,
       extraVars >>

\* Where a thread waits for CookieStore.mu on entering RotateCookies.
RcWait(t) == IF t = "loop" THEN "l_rot_wait" ELSE "o_rot_wait"

\* A caller outside the client calls RotateCookies; the server that holds
\* such callers listens once Init has returned.
DemandCall ==
    /\ pc["rotator"] = "o_idle"
    /\ pc["init"] = "i_done"
    /\ demands < MaxDemands
    /\ demands' = demands + 1
    /\ Goto("rotator", "o_rot_wait")
    /\ UNCHANGED << cookies, cookiesMu, files, loopVars, lockFrame >>
    /\ UNCHANGED << rc, snap, ledger >>

\* Fault variant: RotateCookies goes on without waiting for CookieStore.mu.
RcLock_NoWait(t) ==
    /\ pc[t] = RcWait(t)
    /\ cookiesMu' = t
    /\ rc' = [rc EXCEPT ![t] = [NoRc EXCEPT !.hdr = Header(cookies)]]
    /\ Goto(t, "rc_flight")
    /\ UNCHANGED << cookies, files, loopVars, lockFrame >>
    /\ UNCHANGED << snap, ledger, demands >>

\* Lines 331-359: c.cookies.mu.Lock(); the Cookie header is built from the
\* fields and the request is sent.
RcLock(t) ==
    /\ pc[t] = RcWait(t)
    /\ cookiesMu = ""
    /\ cookiesMu' = t
    /\ rc' = [rc EXCEPT ![t] = [NoRc EXCEPT !.hdr = Header(cookies)]]
    /\ Goto(t, "rc_flight")
    /\ UNCHANGED << cookies, files, loopVars, lockFrame >>
    /\ UNCHANGED << snap, ledger, demands >>

\* RotateCookies returns err: the deferred Unlock runs; the loop counts a
\* failure and selects again.  The ledger notes the credential set left.
RcReturn(t, err) ==
    /\ cookiesMu' = ""
    /\ rc' = [rc EXCEPT ![t] = NoRc]
    /\ ledger' = [commits |-> ledger.commits \cup {Creds(cookies)},
                  left |-> Header(cookies)]
    /\ IF t = "loop"
       THEN /\ failedTicks' = IF err = "" THEN failedTicks ELSE failedTicks + 1
            /\ Goto("loop", "l_select")
            /\ UNCHANGED ticks
       ELSE /\ Goto(t, "o_idle")
            /\ UNCHANGED loopVars

\* Lines 360-372: the answer arrives; a failed request and a status other
\* than 200 are returned as errors.
RcAnswer(t) ==
    /\ pc[t] = "rc_flight"
    /\ \E resp \in world.rot :
          IF ~resp.transport
          THEN RcReturn(t, ErrRotCall)
          ELSE IF resp.status # StatusOK
          THEN RcReturn(t, ErrRotStatus)
          ELSE /\ rc' = [rc EXCEPT ![t].cks = resp.cookies, ![t].i = 1]
               /\ Goto(t, "rc_scan")
               /\ UNCHANGED << cookiesMu, ledger, loopVars >>
    /\ UNCHANGED << cookies, files, lockFrame >>
    /\ UNCHANGED << snap, demands >>

\* Lines 374-394: the range loop looks at the next cookie, and the return
\* after the last one.  A rotating secret is stored first (line 376).
RcScan(t) ==
    /\ pc[t] = "rc_scan"
    /\ IF rc[t].i > Len(rc[t].cks)
       THEN /\ RcReturn(t, IF rc[t].found THEN "" ELSE ErrRotNoCookie)
            /\ UNCHANGED cookies
       ELSE LET c == rc[t].cks[rc[t].i]
            IN  /\ IF c.name = NameTS
                   THEN /\ cookies' = [cookies EXCEPT !.Secure1PSIDTS = c.value]
                        /\ Goto(t, "rc_stamp")
                        /\ UNCHANGED rc
                   ELSE /\ cookies' = IF c.name = NameCC
                                      THEN [cookies EXCEPT !.Secure1PSIDCC = c.value]
                                      ELSE cookies
                        /\ rc' = [rc EXCEPT ![t].i = @ + 1]
                        /\ UNCHANGED pc
                /\ UNCHANGED << cookiesMu, ledger, loopVars >>
    /\ UNCHANGED << files, lockFrame >>
    /\ UNCHANGED << snap, demands >>

\* Lines 377-378: c.cookies.UpdatedAt = time.Now(); found = true
RcStamp(t) ==
    /\ pc[t] = "rc_stamp"
    /\ cookies' = [cookies EXCEPT !.UpdatedAt = @ + 1]
    /\ rc' = [rc EXCEPT ![t].found = TRUE]
    /\ Goto(t, "rc_save")
    /\ UNCHANGED << cookiesMu, files, loopVars, lockFrame >>
    /\ UNCHANGED << snap, ledger, demands >>

\* Fault variant: the cache is saved through an accessor that takes
\* CookieStore.mu, which the rotation already holds.
RcSave_Locking(t) ==
    /\ pc[t] = "rc_save"
    /\ cookiesMu = ""
    /\ \E written \in world.disk :
          files' = SaveCachedCookies(cookies, files, written)
    /\ rc' = [rc EXCEPT ![t].i = @ + 1]
    /\ Goto(t, "rc_scan")
    /\ UNCHANGED << cookies, cookiesMu, loopVars, lockFrame >>
    /\ UNCHANGED << snap, ledger, demands >>

\* Line 380: _ = c.SaveCachedCookies(), which reads the fields directly;
\* then the next cookie.
RcSave(t) ==
    /\ pc[t] = "rc_save"
    /\ \E written \in world.disk :
          files' = SaveCachedCookies(cookies, files, written)
    /\ rc' = [rc EXCEPT ![t].i = @ + 1]
    /\ Goto(t, "rc_scan")
    /\ UNCHANGED << cookies, cookiesMu, loopVars, lockFrame >>
    /\ UNCHANGED << snap, ledger, demands >>

\* ------------------------------------------- GetCookies and ToHTTPCookies
\* Fault variant: the reader copies the fields without taking the lock.
RdLock_NoLock(op) ==
    /\ pc["reader"] = "r_idle"
    /\ pc["init"] = "i_done"
    /\ snap' = [NoSnap EXCEPT !.op = op]
    /\ Goto("reader", "r_first")
    /\ UNCHANGED << cookies, cookiesMu, files, loopVars, lockFrame >>
    /\ UNCHANGED << rc, ledger, demands >>

\* cs.mu.RLock() of a caller of GetCookies or ToHTTPCookies.
RdLock(op) ==
    /\ pc["reader"] = "r_idle"
    /\ pc["init"] = "i_done"
    /\ cookiesMu = ""
    /\ cookiesMu' = "reader"
    /\ snap' = [NoSnap EXCEPT !.op = op]
    /\ Goto("reader", "r_first")
    /\ UNCHANGED << cookies, files, loopVars, lockFrame >>
    /\ UNCHANGED << rc, ledger, demands >>

\* The rotating secret is copied.
RdCopyFirst ==
    /\ pc["reader"] = "r_first"
    /\ snap' = [snap EXCEPT !.ts = cookies.Secure1PSIDTS]
    /\ Goto("reader", "r_second")
    /\ UNCHANGED << cookies, cookiesMu, files, loopVars, lockFrame >>
    /\ UNCHANGED << rc, ledger, demands >>

\* GetCookies copies UpdatedAt, ToHTTPCookies the context secret.
RdCopySecond ==
    /\ pc["reader"] = "r_second"
    /\ snap' = IF snap.op = "GetCookies"
               THEN [snap EXCEPT !.upd = cookies.UpdatedAt]
               ELSE [snap EXCEPT !.cc = cookies.Secure1PSIDCC]
    /\ Goto("reader", "r_unlock")
    /\ UNCHANGED << cookies, cookiesMu, files, loopVars, lockFrame >>
    /\ UNCHANGED << rc, ledger, demands >>

\* The deferred RUnlock; the copy is returned.
RdUnlock ==
    /\ pc["reader"] = "r_unlock"
    /\ cookiesMu' = IF cookiesMu = "reader" THEN "" ELSE cookiesMu
    /\ Goto("reader", "r_idle")
    /\ UNCHANGED << cookies, files, loopVars, lockFrame >>
    /\ UNCHANGED << rc, snap, ledger, demands >>

\* ----------------------------------------------------- Close, step by step
\* c.mu.Lock() of Close.
CloseMuLock ==
    /\ pc["closer"] = "c_closing"
    /\ mu = ""
    /\ mu' = "closer"
    /\ Goto("closer", "c_locked")
    /\ UNCHANGED << clientVars, reqMu, stopRefresh, initVars, genRes, genReqs,
                    loopVars, world, rotLog, parseIn, parseOut, chat, stream,
                    genCtx, intervalVars, leakVars, extraVars >>
    /\ UNCHANGED << rc, snap, ledger, demands >>

\* c.healthy = false; c.mu.Unlock(); return nil
CloseMuStore ==
    /\ pc["closer"] = "c_locked"
    /\ healthy' = FALSE
    /\ mu' = ""
    /\ Goto("closer", "c_done")
    /\ UNCHANGED << cookies, cookiesMu, at, files, reqMu, stopRefresh, initVars,
                    genRes, genReqs, loopVars, world, rotLog, parseIn, parseOut,
                    chat, stream, genCtx, intervalVars, leakVars, extraVars >>
    /\ UNCHANGED << rc, snap, ledger, demands >>

\* The landing-page step of the handshake stores the nonce under c.mu.
HsLandingMu == mu = "" /\ HsLanding

\* The serving program with the rotation loop, a caller of RotateCookies, a
\* reader of the credential set and Close.
InitSnapshots ==
    /\ Serving
    /\ world = AnyWorld
    /\ rotLog = NoRotLog
    /\ parseIn = <<>>
    /\ parseOut = NoResp
    /\ chat = NoChat
    /\ stream = NoStream
    /\ genCtx = [g \in Gens |-> "live"]
    /\ envRefresh = <<>>
    /\ refreshInterval = defaultGeminiRefreshInterval
    /\ runs = <<>>
    /\ runErrs = <<>>
    /\ rc = [t \in Rotators |-> NoRc]
    /\ mu = ""
    /\ snap = NoSnap
    /\ ledger = [commits |-> {Creds(cookies)}, left |-> Header(cookies)]
    /\ demands = 0
    /\ ExtrasIdle

NextSnapshots ==
    \/ LoopTick
    \/ LoopStop
    \/ DemandCall
    \/ \E t \in Rotators : RcLock(t)
    \/ \E t \in Rotators : RcAnswer(t)
    \/ \E t \in Rotators : RcScan(t)
    \/ \E t \in Rotators : RcStamp(t)
    \/ \E t \in Rotators : RcSave(t)
    \/ \E op \in ReaderOps : RdLock(op)
    \/ RdCopyFirst
    \/ RdCopySecond
    \/ RdUnlock
    \/ CloseStop
    \/ CloseMuLock
    \/ CloseMuStore

SpecSnapshots == InitSnapshots /\ [][NextSnapshots]_vars

\* The servers of the program with every lock step: each kind of rotation
\* answer, a landing page with and without a nonce, a disk that works.
LockWorld ==
    [landing |-> { <<KV(NonceA)>>, <<KV(<<>>)>> }, landingOk |-> BOOLEAN,
     rot |-> { RotFail, RotAnswer(StatusOK, <<>>),
               RotAnswer(StatusOK, <<Ck(NameTS, TS_new2), Ck(NameCC, CC_new)>>) },
     disk |-> {TRUE}]

\* The whole program, from the construction of the client, with the
\* rotations after Init, the readers and Close followed lock by lock.
InitLocks ==
    /\ InitProgram
    /\ cookies.Secure1PSID = PSID_abc
    /\ files = NoFiles
    /\ world = LockWorld
    /\ rotLog = NoRotLog
    /\ HarnessIdle

\* The steps of each thread.
StepOf(t) ==
    \/ /\ t = "init"
       /\ \/ InitResolve
          \/ InitPreRotateSend
          \/ InitPreRotateDone
          \/ InitPopulate
          \/ HsWarmup
          \/ HsLandingMu
          \/ InitRotateSend
          \/ InitRotateDone
          \/ InitFinish
    \/ /\ t = "loop"
       /\ (LoopTick \/ LoopStop)
    \/ /\ t \in Rotators
       /\ (RcLock(t) \/ RcAnswer(t) \/ RcScan(t) \/ RcStamp(t) \/ RcSave(t))
    \/ /\ t = "rotator"
       /\ DemandCall
    \/ /\ t = "reader"
       /\ \/ \E op \in ReaderOps : RdLock(op)
          \/ RdCopyFirst
          \/ RdCopySecond
          \/ RdUnlock
    \/ /\ t = "closer"
       /\ (CloseStop \/ CloseMuLock \/ CloseMuStore)
    \/ /\ t \in Gens
       /\ (GenCall(t) \/ GenLock(t) \/ GenDispatch(t) \/ GenDone(t))

NextLocks ==
    \/ InitResolve
    \/ InitPreRotateSend
    \/ InitPreRotateDone
    \/ InitPopulate
    \/ HsWarmup
    \/ HsLandingMu
    \/ InitRotateSend
    \/ InitRotateDone
    \/ InitFinish
    \/ NextSnapshots
    \/ GenCall("g1")
    \/ GenLock("g1")
    \/ GenDispatch("g1")
    \/ GenDone("g1")

SpecLocks == InitLocks /\ [][NextLocks]_vars

\* -------------------------------------------------------------------- chat
\* StartChat: a session with the metadata of the options and no history.
StartChat(metadata) ==
    /\ ~chat.open
    /\ chat' = [open |-> TRUE, metadata |-> metadata, history |-> <<>>,
                sent |-> <<>>]
    /\ UNCHANGED << clientVars, reqMu, stopRefresh, pc, initVars, genRes, genReqs,
                    loopVars, world, rotLog, parseIn, parseOut, stream, probeVars >>

\* SendMessage: one call of GenerateContent with the message and the
\* identifiers of the session; a reply is appended to the history after the
\* message, and its identifiers, when it carries any, become those of the
\* session.  An entry of sent is the request of GenerateContent with the
\* identifiers the session held and what came back.
SendMessage(text) ==
    /\ chat.open
    /\ Len(chat.sent) < MaxTurns
    /\ reqMu = ""
    /\ at # <<>>
    /\ \E ok \in BOOLEAN, status \in GenStatuses, body \in ChatBodies :
          LET r == GenOutcome(ok, status, body)
              config == [model |-> "gemini-pro", metadata |-> chat.metadata]
              call == [inner |-> GenerateInner(text, config),
                       ids |-> chat.metadata, text |-> text,
                       err |-> r.err, reply |-> r.text]
          IN  chat' =
                IF r.err # ""
                THEN [chat EXCEPT !.sent = Append(@, call)]
                ELSE [chat EXCEPT
                        !.sent = Append(@, call),
                        !.history = @ \o << [role |-> "user", content |-> text],
                                            [role |-> "model", content |-> r.text] >>,
                        !.metadata = IF IdsOf(r) = NoIds THEN @ ELSE IdsOf(r)]
    /\ UNCHANGED << clientVars, reqMu, stopRefresh, pc, initVars, genRes, genReqs,
                    loopVars, world, rotLog, parseIn, parseOut, stream, probeVars >>

\* A caller of the chat endpoint of a serving program.
InitChat ==
    /\ Serving
    /\ world = AnyWorld
    /\ rotLog = NoRotLog
    /\ HarnessIdle

NextChat ==
    \/ \E metadata \in ChatMetadata : StartChat(metadata)
    \/ \E text \in ChatTexts : SendMessage(text)

SpecChat == InitChat /\ [][NextChat]_vars

\* ----------------------------------------------------------------- streams
\* The stream writer of a handler starts: GenerateContent returns an error,
\* which is written as the only chunk, or a text, which is split.
StreamOpen(dialect, ok, text) ==
    /\ stream.pc = "idle"
    /\ stream' =
         IF ~ok
         THEN [stream EXCEPT !.dialect = dialect, !.pc = "done",
                             !.out = <<Event("error", <<>>)>>,
                             !.sent = <<Event("error", <<>>)>>]
         ELSE [stream EXCEPT !.dialect = dialect, !.pc = "chunk",
                             !.chunks = splitResponseIntoChunks(text), !.i = 1,
                             !.out = StreamStartEvents(dialect),
                             !.sent = StreamStartEvents(dialect)]
    /\ UNCHANGED << clientVars, reqMu, stopRefresh, pc, initVars, genRes, genReqs,
                    loopVars, world, rotLog, parseIn, parseOut, chat, probeVars >>

\* A content chunk is written.  The Gemini handler returns when the write
\* fails, the other two do not look at the result.
StreamChunk ==
    /\ stream.pc = "chunk"
    /\ \E written \in BOOLEAN :
          stream' =
            IF stream.dialect = "gemini" /\ ~written
            THEN [stream EXCEPT
                    !.pc = "done",
                    !.sent = Append(@, Event("content", stream.chunks[stream.i]))]
            ELSE [stream EXCEPT
                    !.pc = "sleep",
                    !.sent = Append(@, Event("content", stream.chunks[stream.i])),
                    !.out = IF written
                            THEN Append(@, Event("content", stream.chunks[stream.i]))
                            ELSE @]
    /\ UNCHANGED << clientVars, reqMu, stopRefresh, pc, initVars, genRes, genReqs,
                    loopVars, world, rotLog, parseIn, parseOut, chat, probeVars >>

\* The wait after a chunk ends: the handler returns, or goes on with the
\* next chunk or, after the last one, with the end of the stream.
StreamWake ==
    /\ stream.pc = "sleep"
    /\ stream' =
         IF ~WaitReturns(stream.dialect, stream.cancelled)
         THEN [stream EXCEPT !.pc = "done", !.passed = TRUE]
         ELSE [stream EXCEPT
                 !.pc = IF stream.i < Len(stream.chunks) THEN "chunk" ELSE "final",
                 !.i = @ + 1,
                 !.passed = @ \/ stream.cancelled]
    /\ UNCHANGED << clientVars, reqMu, stopRefresh, pc, initVars, genRes, genReqs,
                    loopVars, world, rotLog, parseIn, parseOut, chat, probeVars >>

\* The chunk or events that complete the stream are written.
StreamFinal ==
    /\ stream.pc = "final"
    /\ stream' = [stream EXCEPT !.pc = "done",
                                !.out = @ \o StreamFinalEvents(stream.dialect),
                                !.sent = @ \o StreamFinalEvents(stream.dialect)]
    /\ UNCHANGED << clientVars, reqMu, stopRefresh, pc, initVars, genRes, genReqs,
                    loopVars, world, rotLog, parseIn, parseOut, chat, probeVars >>

\* The caller goes away: the context of the request is done.
StreamCancel ==
    /\ stream.pc \notin {"idle", "done"}
    /\ ~stream.cancelled
    /\ stream' = [stream EXCEPT !.cancelled = TRUE]
    /\ UNCHANGED << clientVars, reqMu, stopRefresh, pc, initVars, genRes, genReqs,
                    loopVars, world, rotLog, parseIn, parseOut, chat, probeVars >>

\* A caller of a streaming endpoint of a serving program.
InitStream ==
    /\ Serving
    /\ world = AnyWorld
    /\ rotLog = NoRotLog
    /\ HarnessIdle

NextStream ==
    \/ \E dialect \in Dialects, ok \in BOOLEAN, text \in StreamTexts :
          StreamOpen(dialect, ok, text)
    \/ StreamChunk
    \/ StreamWake
    \/ StreamFinal
    \/ StreamCancel

SpecStream == InitStream /\ [][NextStream]_vars

\* The life cycle with the log of rotations switched on and a rotation
\* endpoint that also sends the rarer answers.
InitRotations ==
    /\ InitProgram
    /\ world = [AnyWorld EXCEPT !.rot = RotResponsesAll]
    /\ rotLog = [on |-> TRUE, calls |-> <<>>]
    /\ HarnessIdle

SpecRotations == InitRotations /\ [][NextLifecycle]_vars

\* The same with a disk on which every change of the cache file succeeds.
InitSoundDisk ==
    /\ InitProgram
    /\ world = [AnyWorld EXCEPT !.rot = RotResponsesAll, !.disk = {TRUE}]
    /\ rotLog = [on |-> TRUE, calls |-> <<>>]
    /\ HarnessIdle

SpecSoundDisk == InitSoundDisk /\ [][NextLifecycle]_vars

\* parseResponse called on its own for a body.
ParseCall ==
    /\ parseOut = NoResp
    /\ parseOut' = parseResponse(parseIn)
    /\ UNCHANGED << clientVars, reqMu, stopRefresh, pc, initVars, genRes, genReqs,
                    loopVars, world, rotLog, parseIn, chat, stream, probeVars >>

InitParse ==
    /\ InitProgram
    /\ world = AnyWorld
    /\ rotLog = NoRotLog
    /\ parseIn \in ParseBodies
    /\ parseOut = NoResp
    /\ chat = NoChat
    /\ stream = NoStream
    /\ ProbesIdle

SpecParse == InitParse /\ [][ParseCall]_vars

\* The life cycle against a landing page that is reached and answers every
\* request with the same body.
InitFixedLanding ==
    /\ InitProgram
    /\ \E body \in LandingBodies :
          world = [AnyWorld EXCEPT !.landing = {body}, !.landingOk = {TRUE}]
    /\ rotLog = NoRotLog
    /\ HarnessIdle

SpecFixedLanding == InitFixedLanding /\ [][NextLifecycle]_vars

\* ------------------------------------------------ Init called once more
\* What the steps of this section leave alone besides the client.
reinitFrame ==
    << world, rotLog, parseIn, parseOut, chat, stream, genCtx, intervalVars,
       leakVars, lockVars, warm, emit, srv >>

\* A caller whose generation failed calls Init again on the client.
InitAgain ==
    /\ pc["init"] = "i_done"
    /\ inits < MaxInits
    /\ inits' = inits + 1
    /\ Goto("init", "i_start")
    /\ initErr' = "running"
    /\ hsErr' = "unset"
    /\ initLog' = <<>>
    /\ UNCHANGED << clientVars, stopRefresh, genVars, loopVars, wire, loops >>
    /\ UNCHANGED reinitFrame

\* The startAutoRefresh goroutines that have not returned.
RunningLoops ==
    (IF pc["loop"] \in {"l_select", "l_rot_wait", "l_rot_flight"} THEN 1 ELSE 0)
    + loops

\* Init, lines 153-163, on any call: save the cache, `go
\* c.startAutoRefresh()`, return nil.  The go statement starts a goroutine
\* whether or not an earlier one is still in its loop.
InitFinishSpawn ==
    /\ pc["init"] = "i_finish"
    /\ \E written \in world.disk :
          files' = SaveCachedCookies(cookies, files, written)
    /\ IF pc["loop"] \in {"l_select", "l_rot_wait", "l_rot_flight"}
       THEN /\ loops' = loops + 1
            /\ Goto("init", "i_done")
       ELSE /\ pc' = [pc EXCEPT !["init"] = "i_done", !["loop"] = "l_select"]
            /\ UNCHANGED loops
    /\ initErr' = ""
    /\ UNCHANGED << cookies, cookiesMu, at, healthy, stopRefresh >>
    /\ UNCHANGED << hsErr, initLog, genVars, loopVars, wire, inits >>
    /\ UNCHANGED reinitFrame

\* One of the further goroutines takes the case <-c.stopRefresh and returns.
ExtraLoopStop ==
    /\ loops > 0
    /\ stopRefresh
    /\ loops' = loops - 1
    /\ UNCHANGED << clientVars, stopRefresh, pc, initVars, genVars, loopVars >>
    /\ UNCHANGED << wire, inits >>
    /\ UNCHANGED reinitFrame

\* GenerateContent, line 419: if c.at == "" return the error.
GenCheck(g) ==
    /\ pc[g] = "g_locked"
    /\ IF at = <<>>
       THEN /\ genRes' = [genRes EXCEPT ![g] = Resp(ErrNotInit, 0, NoText)]
            /\ reqMu' = ""
            /\ Goto(g, "g_idle")
       ELSE /\ Goto(g, "g_form")
            /\ UNCHANGED << genRes, reqMu >>
    /\ UNCHANGED << clientVars, stopRefresh, initVars, genReqs, loopVars >>
    /\ UNCHANGED << reinitVars, reinitFrame >>

\* Lines 434-437: formData["at"] = c.at, read without c.mu.
GenForm(g) ==
    /\ pc[g] = "g_form"
    /\ wire' = [wire EXCEPT ![g] = [form |-> at, query |-> <<"-">>]]
    /\ Goto(g, "g_query")
    /\ UNCHANGED << clientVars, stopRefresh, initVars, genVars, loopVars >>
    /\ UNCHANGED << inits, loops, reinitFrame >>

\* Lines 438-441: SetQueryParam("at", c.at), a second read of the field,
\* and the request is sent.
GenQuery(g) ==
    /\ pc[g] = "g_query"
    /\ wire' = [wire EXCEPT ![g].query = at]
    /\ genReqs' = [genReqs EXCEPT ![g] = @ + 1]
    /\ Goto(g, "g_flight")
    /\ UNCHANGED << clientVars, stopRefresh, initVars, reqMu, genRes, loopVars >>
    /\ UNCHANGED << inits, loops, reinitFrame >>

\* Close is called again after it has returned: close(c.stopRefresh) on a
\* channel that is closed already panics, on an open one it closes it.
CloseStopAgain ==
    /\ pc["closer"] = "c_done"
    /\ IF stopRefresh
       THEN Goto("closer", "c_panic") /\ UNCHANGED stopRefresh
       ELSE Goto("closer", "c_closing") /\ stopRefresh' = TRUE
    /\ UNCHANGED << clientVars, initVars, genVars, loopVars >>
    /\ UNCHANGED << reinitVars, reinitFrame >>

\* A landing page that now gives another nonce, or none.
ReinitWorld ==
    [landing |-> { <<KV(NonceB)>>, <<KV(<<>>)>> }, landingOk |-> BOOLEAN,
     rot |-> { RotFail, RotAnswer(StatusOK, <<Ck(NameTS, TS_new1)>>) },
     disk |-> {TRUE}]

\* A serving program whose callers call Init again.
InitReinit ==
    /\ Serving
    /\ world = ReinitWorld
    /\ rotLog = NoRotLog
    /\ HarnessIdle

NextReinit ==
    \/ InitAgain
    \/ InitResolve
    \/ InitPopulate
    \/ HsWarmup
    \/ HsLanding
    \/ InitRotateSend
    \/ InitRotateDone
    \/ InitFinishSpawn
    \/ LoopStop
    \/ ExtraLoopStop
    \/ GenCall("g1")
    \/ GenLock("g1")
    \/ GenCheck("g1")
    \/ GenForm("g1")
    \/ GenQuery("g1")
    \/ GenDone("g1")
    \/ CloseStop
    \/ CloseHealth
    \/ CloseStopAgain

SpecReinit == InitReinit /\ [][NextReinit]_vars

\* ------------------------------------------------------- content chunks
\* What the chunk loops leave alone.
emitFrame ==
    << clientVars, reqMu, stopRefresh, pc, initVars, genRes, genReqs, loopVars,
       world, rotLog, parseIn, parseOut, chat, stream, genCtx, intervalVars,
       leakVars, lockVars, warm, reinitVars, srv >>

\* A handler has the complete answer of GenerateContent and cuts it.
ChunksOpen(handler, text) ==
    /\ emit.handler = "none"
    /\ emit' = [handler |-> handler, text |-> text,
                chunks |-> ChunksOf(handler, text), i |-> 1, out |-> <<>>]
    /\ UNCHANGED emitFrame

\* The next content chunk goes out; none of the loops runs without a wait
\* being cancelled here.
ChunksEmit ==
    /\ emit.handler # "none"
    /\ emit.i <= Len(emit.chunks)
    /\ emit' = [emit EXCEPT !.out = @ \o emit.chunks[emit.i], !.i = @ + 1]
    /\ UNCHANGED emitFrame

InitChunks ==
    /\ Serving
    /\ world = AnyWorld
    /\ rotLog = NoRotLog
    /\ HarnessIdle

NextChunks ==
    \/ \E handler \in ChunkHandlers, text \in StreamTexts : ChunksOpen(handler, text)
    \/ ChunksEmit

SpecChunks == InitChunks /\ [][NextChunks]_vars

\* ---------------------------------------------------- warm-up, with outcome
\* Fault variant: a warm-up that fails ends the handshake with an error, as
\* a landing page that is not reached does.
HsWarmupWith_Abort(ok) ==
    /\ pc["init"] \in {"i_hs1_warm", "i_hs2_warm"}
    /\ warm' = IF ok THEN "ok" ELSE "fail"
    /\ IF ok
       THEN /\ Goto("init", IF pc["init"] = "i_hs1_warm" THEN "i_hs1_land"
                                                         ELSE "i_hs2_land")
            /\ UNCHANGED initVars
       ELSE /\ hsErr' = ErrReach
            /\ initLog' = Append(initLog, "hs_fail")
            /\ IF pc["init"] = "i_hs1_warm"
               THEN Goto("init", "i_rot_wait") /\ UNCHANGED initErr
               ELSE Goto("init", "i_done") /\ initErr' = ErrReach
    /\ UNCHANGED << cookies, cookiesMu, at, healthy, files, stopRefresh >>
    /\ UNCHANGED << genVars, loopVars >>
    /\ UNCHANGED << world, rotLog, parseIn, parseOut, chat, stream, genCtx,
                    intervalVars, leakVars, lockVars, emit, reinitVars, srv >>

\* refreshSessionToken, lines 167-252, with the outcome of the warm-up
\* requests noted: when the request to www.google.com fails no extra cookie
\* is added (err # nil at line 174), when the one to gemini.google.com
\* fails nothing is merged (resp1_direct = nil at line 244); either way the
\* function goes on to the landing-page request.
HsWarmupWith(ok) ==
    /\ pc["init"] \in {"i_hs1_warm", "i_hs2_warm"}
    /\ warm' = IF ok THEN "ok" ELSE "fail"
    /\ Goto("init", IF pc["init"] = "i_hs1_warm" THEN "i_hs1_land" ELSE "i_hs2_land")
    /\ UNCHANGED << cookies, cookiesMu, at, healthy, files, stopRefresh >>
    /\ UNCHANGED << initVars, genVars, loopVars >>
    /\ UNCHANGED << world, rotLog, parseIn, parseOut, chat, stream, genCtx,
                    intervalVars, leakVars, lockVars, emit, reinitVars, srv >>

NextWarmup ==
    \/ InitResolve
    \/ InitPreRotateSend
    \/ InitPreRotateDone
    \/ InitPopulate
    \/ \E ok \in BOOLEAN : HsWarmupWith(ok)
    \/ HsLanding
    \/ InitRotateSend
    \/ InitRotateDone
    \/ InitFinish
    \/ LoopTick
    \/ LoopRotateSend
    \/ LoopRotateDone
    \/ LoopStop
    \/ CloseStop
    \/ CloseHealth

\* The life cycle against a landing page that always gives the same body,
\* with warm-up requests that succeed or fail.
SpecWarmup == InitFixedLanding /\ [][NextWarmup]_vars

\* ------------------------------------------ GenerateContent, fair scheduling
\* The client as NewClient built it: callers of GenerateContent arrive
\* before, while and after Init runs.
InitCallers ==
    /\ InitProgram
    /\ cookies.Secure1PSID = PSID_abc
    /\ files = NoFiles
    /\ world = ReinitWorld
    /\ rotLog = NoRotLog
    /\ HarnessIdle

NextCallers ==
    \/ InitResolve
    \/ InitPreRotateSend
    \/ InitPreRotateDone
    \/ InitPopulate
    \/ HsWarmup
    \/ HsLanding
    \/ InitRotateSend
    \/ InitRotateDone
    \/ InitFinish
    \/ \E g \in Gens : GenCall(g)
    \/ \E g \in Gens : GenLock(g)
    \/ \E g \in Gens : GenDispatch(g)
    \/ \E g \in Gens : GenDone(g)

\* Init and the callers of GenerateContent.  A goroutine that can run does run
\* (weak fairness of the steps after the lock); the request of line 439
\* goes through an http client with a timeout, so it ends; sync.Mutex hands
\* the lock to a goroutine that has waited for over a millisecond, so a
\* waiter gets a lock that is free again and again (strong fairness).
SpecCallers ==
    /\ InitCallers
    /\ [][NextCallers]_vars
    /\ \A g \in Gens : /\ SF_vars(GenLock(g))
                       /\ WF_vars(GenDispatch(g))
                       /\ WF_vars(GenDone(g))

\* -------------------------------------------------------------- the server
srvFrame ==
    << clientVars, reqMu, stopRefresh, pc, initVars, genRes, genReqs, loopVars,
       world, rotLog, parseIn, parseOut, chat, stream, genCtx, intervalVars,
       leakVars, lockVars, warm, emit, reinitVars >>

\* New: server.go builds the application at once and its hooks capture it;
\* part_002 leaves Server.app nil until the start hook.
SrvNew(version) ==
    /\ srv.stage = "none"
    /\ srv' = [srv EXCEPT !.version = version, !.stage = "built",
                          !.app = IF version = "server.go" THEN App ELSE NoApp]
    /\ UNCHANGED srvFrame

\* OnStart: part_002 builds the application and stores it; both start the
\* goroutine that listens and return nil.
SrvOnStart ==
    /\ srv.stage = "built"
    /\ srv' = [srv EXCEPT !.stage = "listen", !.app = App, !.inst = App]
    /\ UNCHANGED srvFrame

\* Listen on the configured port: it binds and serves, or returns an error.
SrvListen(bound) ==
    /\ srv.stage = "listen"
    /\ srv' = IF bound
              THEN [srv EXCEPT !.stage = "serving", !.listening = App]
              ELSE [srv EXCEPT !.stage = "alt", !.attempt = 1, !.inst = NoApp]
    /\ UNCHANGED srvFrame

\* One round of the loop over the alternative ports: a new application is
\* built and listens.  After the last port server.go goes on to the random
\* port and part_002 returns the error that New passes to log.Fatal.
SrvAltListen(bound) ==
    /\ srv.stage = "alt"
    /\ srv' = IF bound
              THEN [srv EXCEPT !.stage = "serving",
                               !.inst = AltApp(srv.attempt),
                               !.listening = AltApp(srv.attempt)]
              ELSE IF srv.attempt < MaxAltPorts
              THEN [srv EXCEPT !.attempt = @ + 1]
              ELSE IF srv.version = "server.go"
              THEN [srv EXCEPT !.stage = "random"]
              ELSE [srv EXCEPT !.stage = "fatal"]
    /\ UNCHANGED srvFrame

\* server.go: Listen on port 0, or log.Fatal.
SrvRandomListen(bound) ==
    /\ srv.stage = "random"
    /\ srv' = IF bound
              THEN [srv EXCEPT !.stage = "serving", !.inst = RandomPortApp,
                               !.listening = RandomPortApp]
              ELSE [srv EXCEPT !.stage = "fatal"]
    /\ UNCHANGED srvFrame

\* OnStop: Shutdown of the application the hook holds, which closes the
\* listener of that application if it has one.
SrvOnStop ==
    /\ srv.stage \in {"listen", "alt", "random", "serving", "returned"}
    /\ ~srv.stopped
    /\ srv' = [srv EXCEPT !.stopped = TRUE,
                          !.listening = IF @ = srv.app THEN NoApp ELSE @]
    /\ UNCHANGED srvFrame

\* Listen returns nil since its application was shut down.  part_002 now
\* stores the alternative application in Server.app.
SrvListenReturns ==
    /\ srv.stage = "serving"
    /\ srv.listening = NoApp
    /\ srv' = [srv EXCEPT !.stage = "returned",
                          !.app = IF srv.version = "part_002" /\ srv.inst # App
                                  THEN srv.inst ELSE @]
    /\ UNCHANGED srvFrame

\* The listening application accepts a request.
SrvRequest ==
    /\ srv.listening # NoApp
    /\ srv.inflight + srv.served < MaxRequests
    /\ srv' = [srv EXCEPT !.inflight = @ + 1]
    /\ UNCHANGED srvFrame

\* A request is answered.
SrvRespond ==
    /\ srv.inflight > 0
    /\ srv' = [srv EXCEPT !.inflight = @ - 1, !.served = @ + 1]
    /\ UNCHANGED srvFrame

InitServer ==
    /\ Serving
    /\ world = AnyWorld
    /\ rotLog = NoRotLog
    /\ HarnessIdle

NextServer ==
    \/ \E version \in ServerVersions : SrvNew(version)
    \/ SrvOnStart
    \/ \E bound \in BOOLEAN : SrvListen(bound)
    \/ \E bound \in BOOLEAN : SrvAltListen(bound)
    \/ \E bound \in BOOLEAN : SrvRandomListen(bound)
    \/ SrvOnStop
    \/ SrvListenReturns
    \/ SrvRequest
    \/ SrvRespond

SpecServer == InitServer /\ [][NextServer]_vars

\* ----------------------------------------------------------------- claims
InFlight(g) == pc[g] = "g_flight"
LoopRotating == pc["loop"] \in {"l_rot_wait", "l_rot_flight"}
LoopRunning == pc["loop"] \in {"l_select", "l_rot_wait", "l_rot_flight"}

\* C1: no two generation requests of the client are in flight at the same
\* time; at most one call is between reqMu.Lock and the deferred Unlock, and
\* it is the holder of reqMu.
C1_SerializedDispatch ==
    /\ Cardinality({g \in Gens : InFlight(g)}) <= 1
    /\ \A g \in Gens : pc[g] \in {"g_locked", "g_flight"} <=> reqMu = g

C1_Witness == InFlight("g1") /\ pc["g2"] = "g_wait" /\ genRes["g2"] = NoResp

AuthErrors == {ErrNotFound, ErrCookiesInvalid, ErrReach}

RECURSIVE FromFirstHandshake(_)
FromFirstHandshake(log) ==
    IF log = <<>> THEN <<>>
    ELSE IF Head(log) \in {"hs_ok", "hs_fail"} THEN log
    ELSE FromFirstHandshake(Tail(log))

FirstHandshakeFailed ==
    FromFirstHandshake(initLog) # <<>> /\ Head(FromFirstHandshake(initLog)) = "hs_fail"

AfterFirstFailure == Tail(FromFirstHandshake(initLog))

Count(log, evs) == Cardinality({i \in 1..Len(log) : log[i] \in evs})

\* C3 as stated: after a failed first handshake Init makes exactly one
\* rotation attempt and exactly one retry of the handshake.
C3_Original ==
    (pc["init"] = "i_done" /\ FirstHandshakeFailed) =>
        /\ Count(AfterFirstFailure, {"rot_ok", "rot_fail"}) = 1
        /\ Count(AfterFirstFailure, {"hs_ok", "hs_fail"}) = 1

\* C3, amended: after a failed first handshake Init makes exactly one
\* rotation attempt; the handshake is retried exactly once when that
\* rotation succeeded and not at all when it failed, in which case the
\* error of the first handshake is returned; nothing is attempted after.
C3_RetryPolicy ==
    /\ FirstHandshakeFailed =>
          AfterFirstFailure \in {<<>>, <<"rot_fail">>, <<"rot_ok">>,
                                 <<"rot_ok", "hs_ok">>, <<"rot_ok", "hs_fail">>}
    /\ (pc["init"] = "i_done" /\ FirstHandshakeFailed) =>
          \/ AfterFirstFailure = <<"rot_fail">> /\ initErr = hsErr /\ hsErr \in AuthErrors
          \/ AfterFirstFailure = <<"rot_ok", "hs_fail">> /\ initErr = hsErr
                /\ hsErr \in AuthErrors
          \/ AfterFirstFailure = <<"rot_ok", "hs_ok">> /\ initErr = ""
    /\ ~FirstHandshakeFailed => Count(initLog, {"hs_ok", "hs_fail"}) <= 1

C3_Witness ==
    /\ pc["init"] = "i_done"
    /\ FirstHandshakeFailed
    /\ AfterFirstFailure = <<"rot_fail">>
    /\ initErr = ErrCookiesInvalid

\* C4: while no handshake has succeeded (the nonce is unset) every
\* GenerateContent call ends with the "not initialized" error, and such a
\* call has issued no request; a request is only ever in flight with a
\* nonce.
C4_NotInitialized ==
    \A g \in Gens :
        /\ genRes[g].err = ErrNotInit => genReqs[g] = 0 /\ pc[g] = "g_idle"
        /\ at = <<>> => /\ ~InFlight(g)
                        /\ genReqs[g] = 0
                        /\ genRes[g].err \in {"none", ErrNotInit}

C4_Witness ==
    /\ genRes["g1"].err = ErrNotInit /\ genReqs["g1"] = 0
    /\ at = <<>> /\ pc["init"] = "i_done"

GenFailures == {ErrTransport, ErrStatus, ErrParse}

\* C5: a GenerateContent call issues at most one generation request; a call
\* that failed in transport, by status or in parsing has returned its error
\* after exactly one request and holds reqMu no more.
C5_NoRetry ==
    \A g \in Gens :
        /\ genReqs[g] <= 1
        /\ InFlight(g) => genReqs[g] = 1
        /\ genRes[g].err \in GenFailures =>
              pc[g] = "g_idle" /\ genReqs[g] = 1 /\ reqMu # g

C5_Witness ==
    /\ genRes["g1"].err = ErrParse /\ genReqs["g1"] = 1
    /\ genRes["g2"].err \in {ErrTransport, ErrStatus}

\* C6 as stated: a call that returns success returns a non-empty text.
C6_TextNonEmpty ==
    \A g \in Gens : genRes[g].err = "" => genRes[g].text # ""

\* C7: the rotation loop never holds reqMu and a generation never holds
\* CookieStore.mu; no step of a generation waits for CookieStore.mu and no
\* step of a scheduled rotation waits for reqMu.
C7_NoCrossBlocking ==
    /\ reqMu \in Gens \cup {""}
    /\ cookiesMu \in {"", "init", "loop"}
    /\ \A g \in Gens :
          /\ (pc[g] = "g_wait" /\ reqMu = "") => ENABLED GenLock(g)
          /\ pc[g] = "g_locked" => ENABLED GenDispatch(g)
          /\ pc[g] = "g_flight" => ENABLED GenDone(g)
    /\ (pc["loop"] = "l_rot_wait" /\ cookiesMu = "") => ENABLED LoopRotateSend
    /\ pc["loop"] = "l_rot_flight" => ENABLED LoopRotateDone

C7_Witness ==
    /\ pc["loop"] = "l_rot_flight" /\ cookiesMu = "loop"
    /\ pc["g1"] = "g_locked" /\ reqMu = "g1"
    /\ genRes["g2"].err = ""

C9_LoopSurvivesFailures ==
    /\ pc["loop"] = "l_exit" => stopRefresh
    /\ (failedTicks > 0 /\ ~stopRefresh) => LoopRunning
    /\ (pc["loop"] = "l_select" /\ ticks < MaxTicks) => ENABLED LoopTick

C9_Witness ==
    /\ failedTicks = MaxTicks - 1 /\ failedTicks = ticks - 1
    /\ pc["loop"] = "l_rot_flight"
    /\ ~stopRefresh

\* C10: whenever the stop signal is raised the loop eventually is not
\* running (a loop that Init starts later returns too); a loop that has
\* returned stays so; raising the signal moves neither the loop nor
\* CookieStore.mu; the loop returns only from its select, so a rotation in
\* flight is not dropped, and it runs to its end.
C10_StopEndsLoop ==
    /\ stopRefresh ~> ~LoopRunning
    /\ [][pc["loop"] = "l_exit" => pc'["loop"] = "l_exit"]_vars
    /\ [][(pc'["loop"] = "l_exit" /\ pc["loop"] # "l_exit")
             => (pc["loop"] = "l_select" /\ stopRefresh)]_vars
    /\ [][(stopRefresh' /\ ~stopRefresh)
             => (pc'["loop"] = pc["loop"] /\ cookiesMu' = cookiesMu)]_vars
    /\ (stopRefresh /\ pc["loop"] = "l_rot_flight") ~> (pc["loop"] = "l_select")

C10_Witness ==
    /\ stopRefresh /\ pc["loop"] = "l_rot_flight" /\ cookiesMu = "loop"

\* The values of the rotating-secret cookies of an answer, in order, and
\* the value a rotation receives from it: the one of the last such cookie.
TSValues(resp) ==
    LET ts == SelectSeq(resp.cookies, LAMBDA c : c.name = NameTS)
    IN  [i \in 1..Len(ts) |-> ts[i].value]

Received(resp) == TSValues(resp)[Len(TSValues(resp))]

Calls == rotLog.calls

\* C11: after two consecutive successful rotations that received v1 and
\* then v2, the credential set holds one rotating secret, equal to v2 (not
\* v1, and not v1 and v2 put together), and the long-lived secret is the one
\* held before the first of the two.
C11_LatestValueOnly ==
    \A i \in 1..(Len(Calls) - 1) :
        (i + 1 = Len(Calls) /\ Calls[i].err = "" /\ Calls[i + 1].err = "")
        => LET v1 == Received(Calls[i].resp)
               v2 == Received(Calls[i + 1].resp)
           IN  /\ cookies.Secure1PSIDTS = v2
               /\ v1 # <<>> => cookies.Secure1PSIDTS \notin {v1 \o v2, v2 \o v1}
               /\ cookies.Secure1PSID = Calls[i].psid

C11_Witness ==
    /\ Len(Calls) = 2
    /\ Calls[1].err = "" /\ Received(Calls[1].resp) = TS_new2
    /\ Calls[2].err = "" /\ Received(Calls[2].resp) = TS_new1
    /\ cookies.Secure1PSIDTS = TS_new1
    /\ cookies.Secure1PSID = PSID_abc

\* Why a rotation fails, told from the answer alone.
RotationFails(resp) ==
    \/ ~resp.transport
    \/ resp.status # 200
    \/ \A i \in 1..Len(resp.cookies) : resp.cookies[i].name # "__Secure-1PSIDTS"

\* C12: RotateCookies returns an error exactly when the request fails in
\* transport, the status is not 200 or the answer carries no rotating-secret
\* cookie; after a call that returned success the rotating secret is the
\* value of the rotating-secret cookie received.
C12_RotationErrors ==
    /\ \A i \in 1..Len(Calls) : (Calls[i].err # "") <=> RotationFails(Calls[i].resp)
    /\ (Len(Calls) > 0 /\ Calls[Len(Calls)].err = "")
          => cookies.Secure1PSIDTS = Received(Calls[Len(Calls)].resp)

C12_Witness ==
    /\ Len(Calls) = 4
    /\ Calls[1].err = ErrRotStatus
    /\ Calls[2].err = "" /\ Received(Calls[2].resp) = TS_new2
    /\ Calls[3].err = ErrRotCall
    /\ Calls[4].err = ErrRotNoCookie
    /\ cookies.Secure1PSIDTS = TS_new2

\* The content of the cache file of the long-lived secret held; <<>> when
\* there is no such file.
CachedValue ==
    IF CacheFile(cookies.Secure1PSID) \in DOMAIN files
    THEN files[CacheFile(cookies.Secure1PSID)] ELSE <<>>

LastRotationSucceeded == Len(Calls) > 0 /\ Calls[Len(Calls)].err = ""

C14_Original == [][cookies'.Secure1PSID = cookies.Secure1PSID]_vars

InitCleans == pc["init"] = "i_start" /\ pc'["init"] # "i_start"

\* C14 as amended: the first step of Init replaces the long-lived secret by
\* its cleaned form, and no other step of Init, of a handshake, of a
\* rotation, of a generation or of Close changes it.
C14_FixedOnceCleaned ==
    [][IF InitCleans
       THEN cookies'.Secure1PSID = cleanCookie(cookies.Secure1PSID)
       ELSE cookies'.Secure1PSID = cookies.Secure1PSID]_vars

C14_Witness ==
    /\ cookies.Secure1PSID = PSID_abc
    /\ cookies.Secure1PSIDTS = TS_new1 /\ cookies.UpdatedAt = 2
    /\ initErr = ""
    /\ genRes["g1"].err = ""
    /\ pc["closer"] = "c_done"

HandshakeSucceeded == \E i \in 1..Len(initLog) : initLog[i] = "hs_ok"
RotationSucceeded == \E i \in 1..Len(Calls) : Calls[i].err = ""

\* C15 as claimed: once a handshake or a rotation has succeeded, the
\* rotating secret is not empty.
C15_Original ==
    (HandshakeSucceeded \/ RotationSucceeded) => cookies.Secure1PSIDTS # <<>>

\* A rotation returns success in this step for a rotating-secret cookie with
\* an empty value.
ReceivesEmptyValue ==
    /\ Len(rotLog'.calls) = Len(Calls) + 1
    /\ rotLog'.calls[Len(Calls) + 1].err = ""
    /\ Received(rotLog'.calls[Len(Calls) + 1].resp) = <<>>

HandshakeReturns ==
    /\ Len(initLog') = Len(initLog) + 1
    /\ initLog'[Len(initLog')] \in {"hs_ok", "hs_fail"}

\* C15 as amended: once Init has resolved the configuration against the
\* cache, a rotating secret that is not empty stays so in every later state
\* up to a rotation that returns success for an empty value; a handshake,
\* successful or not, leaves the rotating secret as it is, empty included.
C15_NonEmptyUntilEmptyValue ==
    /\ [][(pc["init"] # "i_start" /\ cookies.Secure1PSIDTS # <<>>)
            => (cookies'.Secure1PSIDTS # <<>> \/ ReceivesEmptyValue)]_vars
    /\ [][HandshakeReturns => cookies'.Secure1PSIDTS = cookies.Secure1PSIDTS]_vars

C15_Witness ==
    /\ HandshakeSucceeded
    /\ Len(Calls) = 3
    /\ Calls[1].err = "" /\ Received(Calls[1].resp) = TS_new1
    /\ Calls[2].err = ErrRotStatus
    /\ Calls[3].err = ErrRotNoCookie
    /\ cookies.Secure1PSIDTS = TS_new1

\* The lines of the body handed to the parser that carry an answer.
AnswerLines == { i \in 1..Len(parseIn) : \E t \in TextLines : t.line = parseIn[i] }

AnswerOf(line) == (CHOOSE t \in TextLines : t.line = line).text

\* C16: a line that is not valid JSON, or that fails to decode at some
\* level, never makes the parser fail: the parser returns the answer of the
\* first line that carries one, whatever the lines before it, and reports a
\* parse failure only when no line of the body carries an answer.
C16_SkipsBadLines ==
    parseOut # NoResp
    => IF AnswerLines = {}
       THEN parseOut.err = ErrParse
       ELSE /\ parseOut.err = ""
            /\ parseOut.text =
                  AnswerOf(parseIn[CHOOSE i \in AnswerLines : \A h \in AnswerLines : i <= h])

C16_Witness ==
    /\ parseIn = << GarbageLine, Line(FALSE, <<JArr(BadItems)>>),
                    Line(TRUE, <<JArr(<<GoodItem("Hi")>>)>>) >>
    /\ parseOut.err = ""
    /\ parseOut.text = "Hi"

\* C17: when no line of the body yields text, the error of the parser
\* carries an excerpt of the body of at most ExcerptMax characters, which is
\* empty for an empty body.
C17_ExcerptCarried ==
    parseOut.err = ErrParse
    => /\ Len(parseOut.excerpt) = 1
       /\ Len(parseOut.excerpt[1]) <= ExcerptMax
       /\ parseIn = <<>> => parseOut.excerpt[1] = <<>>

\* The body of the landing page, when it is always the same.
TheLandingBody == CHOOSE body \in world.landing : TRUE

\* The bodies in which neither nonce pattern matches, and those among them
\* that contain "Sign in" or "login".
NoNonceBodies ==
    { <<KV(<<>>)>>, <<KV(<<>>), TXT("Sign in")>>, <<TXT("login")>>,
      <<TXT("other")>>, <<>> }

SignInBodies == { <<KV(<<>>), TXT("Sign in")>>, <<TXT("login")>> }

Classified(body) ==
    IF body \in SignInBodies
    THEN "authentication failed: cookies invalid. Please provide __Secure-1PSIDTS in addition to __Secure-1PSID"
    ELSE "authentication failed: SNlM0e not found"

\* C18: when neither nonce pattern matches the body of the landing page, a
\* handshake fails with the credentials-invalid error if the body contains
\* "Sign in" or "login" and with the nonce-not-found error otherwise, and
\* Init ends with that error, in particular for the credential set
\* {long-lived "abc", no rotating secret, no context secret} and no cache.
C18_FailureClassified ==
    /\ (hsErr # "unset" /\ TheLandingBody \in NoNonceBodies)
          => hsErr = Classified(TheLandingBody)
    /\ (pc["init"] = "i_done" /\ TheLandingBody \in NoNonceBodies)
          => initErr = Classified(TheLandingBody)
    /\ (hsErr # "unset" /\ TheLandingBody \notin NoNonceBodies) => hsErr = ""

C18_Witness ==
    /\ TheLandingBody = <<KV(<<>>), TXT("Sign in")>>
    /\ cookies = [Secure1PSID |-> PSID_abc, Secure1PSIDTS |-> <<>>,
                  Secure1PSIDCC |-> <<>>, UpdatedAt |-> 0]
    /\ files = NoFiles
    /\ initLog = <<"rot_fail", "hs_fail", "rot_fail">>
    /\ pc["init"] = "i_done"
    /\ initErr = ErrCookiesInvalid

\* The third inner field that carries identifiers.
IdsField(ids) == JArr(<<JStr(ids.cid), JStr(ids.rid), JStr(ids.rcid)>>)

\* The history that the calls of a session make, in call order.
RECURSIVE HistoryOf(_)
HistoryOf(calls) ==
    IF calls = <<>> THEN <<>>
    ELSE LET c == calls[Len(calls)]
             before == HistoryOf(SubSeq(calls, 1, Len(calls) - 1))
         IN  IF c.err # "" THEN before
             ELSE before \o << [role |-> "user", content |-> c.text],
                                [role |-> "model", content |-> c.reply] >>

\* C19: every request of a chat session carries in its third inner field
\* the identifiers the session holds, and null only while the session holds
\* none; the history is the messages and replies in call order.
C19_IdsForwarded ==
    /\ \A i \in 1..Len(chat.sent) :
          chat.sent[i].inner.a[3] =
            IF chat.sent[i].ids = NoIds THEN JNull ELSE IdsField(chat.sent[i].ids)
    /\ chat.history = HistoryOf(chat.sent)

\* C20: in a simulated stream of any dialect, once a wait after a chunk has
\* ended with the caller's context done, nothing more is written: no
\* content chunk and none of the chunks or events that complete the stream.
C20_NothingAfterCancel ==
    [][stream.passed => stream'.out = stream.out]_vars

\* C21: a GenerateContent call whose context is done while its request is
\* in flight returns the error of the context and frees reqMu.
C21_CancelEndsCall ==
    [][\A g \in Gens :
          (pc[g] = "g_flight" /\ genCtx[g] = "done" /\ pc'[g] = "g_idle")
            => (genRes'[g].err = "context canceled" /\ reqMu' = "")]_vars

\* C22: the rotation loop of the client built from the loaded configuration
\* ticks every 30 minutes when GEMINI_REFRESH_INTERVAL is unset or is a
\* number that is not positive, and every N minutes when it is the positive
\* number N.
C22_IntervalDefault30 ==
    (refreshInterval # 0 /\ (envRefresh = <<>> \/ Atoi(envRefresh).ok))
       => refreshInterval =
            IF envRefresh # <<>> /\ Atoi(envRefresh).val > 0
            THEN Atoi(envRefresh).val
            ELSE 30

\* Whether the value v occurs in a text of pieces.
Occurs(v, text) ==
    \E i \in 1..Len(text) :
       /\ i + Len(v) - 1 <= Len(text)
       /\ SubSeq(text, i, i + Len(v) - 1) = v

SecretValues(r) ==
    { v \in {r.Secure1PSID, r.Secure1PSIDTS, r.Secure1PSIDCC, r.nonce} : v # <<>> }

\* C23: the error of Init, RotateCookies or GenerateContent is the same text
\* in two runs that differ only in the values of the secrets and the nonce,
\* and the text contains none of those values.
C23_ErrorsHideSecrets ==
    runErrs # <<>> =>
       /\ runErrs[1] = runErrs[2]
       /\ \A i \in 1..2 : \A v \in SecretValues(runs[i]) : ~Occurs(v, runErrs[i])

\* Init is about to read or write fields of the credential set directly,
\* without CookieStore.mu: the cleaning and the cache resolution (lines
\* 102-121), the Cookie header of the handshake (lines 186-191), the save
\* of the cache (line 154).
DirectAccess ==
    pc["init"] \in {"i_start", "i_hs1_warm", "i_hs2_warm", "i_finish"}

C25_SnapshotsWhole ==
    pc["reader"] = "r_unlock" =>
        \E c \in ledger.commits :
            /\ snap.ts = c.ts
            /\ snap.op = "GetCookies" => snap.upd = c.upd
            /\ snap.op = "ToHTTPCookies" => snap.cc = c.cc

C25_Witness ==
    /\ pc["reader"] = "r_unlock"
    /\ snap.op = "GetCookies"
    /\ snap.upd > 1
    /\ Cardinality(ledger.commits) > 1
    /\ \E t \in Rotators : pc[t] = RcWait(t)

\* The threads whose RotateCookies call holds the lock: request in flight
\* or answer being applied.
Exchanging ==
    { t \in Rotators : pc[t] \in {"rc_flight", "rc_scan", "rc_stamp", "rc_save"} }

\* C26: at most one RotateCookies call of the loop and of outside callers
\* is between its Lock and its return at any time, and the request in
\* flight carries the secrets that the call before it left.
C26_OneExchange ==
    /\ Cardinality(Exchanging) <= 1
    /\ \A t \in Rotators : pc[t] = "rc_flight" => rc[t].hdr = ledger.left

C26_Witness ==
    /\ pc["loop"] = "l_rot_wait"
    /\ pc["rotator"] = "rc_flight"
    /\ Cardinality(ledger.commits) > 1
    /\ rc["rotator"].hdr = ledger.left
    /\ rc["rotator"].hdr[2] # TS_new2

\* The three locks and the thread that holds each.
LockNames == { "cookies.mu", "mu", "reqMu" }
Holder(l) ==
    IF l = "cookies.mu" THEN cookiesMu ELSE IF l = "mu" THEN mu ELSE reqMu
Holds(t) == { l \in LockNames : Holder(l) = t }

\* The lock a thread is about to take, "" when its next step takes none.
WaitsFor(t) ==
    IF pc[t] \in {"i_prerot_wait", "i_rot_wait", "l_rot_wait", "o_rot_wait"}
    THEN "cookies.mu"
    ELSE IF pc[t] \in {"i_hs1_land", "i_hs2_land", "c_closing"} THEN "mu"
    ELSE IF pc[t] = "g_wait" THEN "reqMu"
    ELSE ""

\* C27: no thread holds two of the three locks, a thread that holds a lock
\* is not waiting for a lock and always has a step it can take, so every
\* lock that is waited for is released: Init, rotations of the loop and of
\* outside callers, readers, GenerateContent and Close never deadlock.
C27_NoDeadlock ==
    \A t \in Threads :
        /\ Cardinality(Holds(t)) <= 1
        /\ Holds(t) # {} => (WaitsFor(t) = "" /\ ENABLED StepOf(t))

C27_Witness ==
    /\ pc["rotator"] = "rc_save"
    /\ cookiesMu = "rotator"
    /\ pc["loop"] = "l_rot_wait"
    /\ pc["closer"] = "c_locked"
    /\ mu = "closer"
    /\ \E g \in Gens : pc[g] = "g_flight" /\ reqMu = g

\* The value the cache holds for the long-lived secret of the
\* configuration, <<>> when it holds none.
CachedFor(ck, fs) ==
    LET f == CacheFile(cleanCookie(ck.Secure1PSID))
    IN  IF cleanCookie(ck.Secure1PSID) # <<>> /\ f \in DOMAIN fs THEN fs[f] ELSE <<>>

\* The files without the cache entry of the long-lived secret.
WithoutEntry(ck, fs) ==
    [f \in DOMAIN fs \ {CacheFile(cleanCookie(ck.Secure1PSID))} |-> fs[f]]

\* The configured and the cached value disagree.
Conflict(ck, fs) ==
    /\ cleanCookie(ck.Secure1PSIDTS) # <<>>
    /\ CachedFor(ck, fs) # <<>>
    /\ CachedFor(ck, fs) # cleanCookie(ck.Secure1PSIDTS)

\* The rotating secret in use after the resolution of a configuration
\* against a cache.
Resolved(ck, fs) ==
    IF cleanCookie(ck.Secure1PSIDTS) # <<>> THEN cleanCookie(ck.Secure1PSIDTS)
    ELSE CachedFor(ck, fs)

ResolveStep == pc["init"] = "i_start" /\ pc'["init"] # "i_start"

BeforeFirstLanding == pc["init"] \in {"i_populate", "i_hs1_warm", "i_hs1_land"}

\* C29: Init goes into a rotation after the resolution exactly when it has
\* a long-lived secret and no rotating secret; that rotation is the only one
\* before the first landing-page request; whatever its result Init goes on
\* to the handshake, and after a failed one the landing page is requested
\* with the rotating secret still empty.
C29_OneRotationFirst ==
    /\ [][ResolveStep =>
            ((pc'["init"] = "i_prerot_wait") <=>
                (cookies'.Secure1PSID # <<>> /\ cookies'.Secure1PSIDTS = <<>>))]_vars
    /\ [](pc["init"] \in {"i_prerot_wait", "i_prerot_flight"} =>
            (initLog = <<>> /\ cookies.Secure1PSIDTS = <<>>))
    /\ [][(pc["init"] = "i_prerot_flight" /\ pc'["init"] # "i_prerot_flight") =>
            /\ pc'["init"] = "i_populate"
            /\ initLog' \in { <<"rot_ok">>, <<"rot_fail">> }
            /\ initErr' = "running"]_vars
    /\ [](BeforeFirstLanding =>
            /\ Len(initLog) <= 1
            /\ initErr = "running"
            /\ initLog = <<"rot_fail">> => cookies.Secure1PSIDTS = <<>>)
    /\ [](pc["init"] = "i_populate" => ENABLED InitPopulate)
    /\ [](pc["init"] = "i_hs1_warm" => ENABLED HsWarmup)
    /\ [](pc["init"] = "i_hs1_land" => ENABLED HsLanding)

C29_Witness ==
    /\ pc["init"] = "i_hs1_land"
    /\ initLog = <<"rot_fail">>
    /\ cookies.Secure1PSID = PSID_abc
    /\ cookies.Secure1PSIDTS = <<>>
    /\ initErr = "running"

\* A step of a GenerateContent call.
GenStep == \E g \in Gens : pc'[g] # pc[g]

\* C30: no step of GenerateContent, whatever the call returns, changes the
\* nonce, the health flag, a field of the credential set or the cache file.
C30_GenerateFrame ==
    [][GenStep =>
         /\ at' = at
         /\ healthy' = healthy
         /\ cookies' = cookies
         /\ files' = files]_vars

C30_Witness ==
    /\ pc["g1"] = "g_idle"
    /\ pc["g2"] = "g_idle"
    /\ genRes["g1"].err = ErrStatus
    /\ genRes["g2"].err = ""
    /\ genRes["g2"] # NoResp
    /\ at = NonceA
    /\ healthy

WarmupStep ==
    pc["init"] \in {"i_hs1_warm", "i_hs2_warm"} /\ pc'["init"] # pc["init"]
LandingStep ==
    pc["init"] \in {"i_hs1_land", "i_hs2_land"} /\ pc'["init"] # pc["init"]

C32_ChunksRebuildText ==
    (emit.handler # "none" /\ emit.i > Len(emit.chunks)) => emit.out = emit.text

\* C33: every generation request in flight carries the same nonce in its
\* form field and in its query parameter.
C33_SameNonceTwice ==
    \A g \in Gens : pc[g] = "g_flight" => wire[g].form = wire[g].query

\* C34: at most one startAutoRefresh goroutine of the client is running.
C34_OneLoop == RunningLoops <= 1

\* C35: a call of Close after the first returns as the first did: no call
\* of Close ends in a panic.
C35_CloseTwice == pc["closer"] # "c_panic"

\* A call of RotateCookies returns with an error in this step.
RotationFailsNow ==
    /\ Len(Calls') = Len(Calls) + 1
    /\ Calls'[Len(Calls')].err # ""

\* C36: a call of RotateCookies that returns an error leaves the rotating
\* secret, UpdatedAt and the cache files as they were when it was called.
C36_FailedRotationKeeps ==
    [][RotationFailsNow =>
         /\ cookies'.Secure1PSIDTS = cookies.Secure1PSIDTS
         /\ cookies'.UpdatedAt = cookies.UpdatedAt
         /\ files' = files]_vars

C36_Witness ==
    /\ Len(Calls) = 3
    /\ Calls[1].err = ""
    /\ Calls[2].err = ErrRotStatus
    /\ Calls[3].err = ErrRotNoCookie
    /\ Calls[3].resp = RotAnswer(StatusOK, <<Ck(NameCC, CC_new)>>)
    /\ cookies.Secure1PSIDTS = Received(Calls[1].resp)
    /\ cookies.Secure1PSIDCC = CC_new
    /\ CachedValue = cookies.Secure1PSIDTS

\* A handshake ends without a nonce in this step.
HandshakeFailsNow == LandingStep /\ hsErr' # ""

\* C37: the health flag is set only while the nonce is non-empty; a step
\* that raises the flag is the handshake's final step and leaves a
\* non-empty nonce with it; a handshake that fails changes neither.
C37_HealthyHasNonce ==
    /\ [](healthy => at # <<>>)
    /\ [][(healthy' /\ ~healthy) => (LandingStep /\ hsErr' = "" /\ at' # <<>>)]_vars
    /\ [][(at' # at) => (LandingStep /\ hsErr' = "" /\ healthy')]_vars
    /\ [][HandshakeFailsNow => (at' = at /\ healthy' = healthy)]_vars

C37_Witness ==
    /\ healthy
    /\ at # <<>>
    /\ \E i \in 1..Len(initLog) : initLog[i] = "hs_fail"
    /\ initLog[Len(initLog)] = "hs_ok"

\* C38: a call of GenerateContent holds reqMu exactly while it is between
\* Lock and its return, whichever return it takes; and, with the fairness of
\* SpecCallers, every call that waits for reqMu gets it and returns.
C38_LockReleased ==
    /\ [](\A g \in Gens : (reqMu = g) <=> (pc[g] \in {"g_locked", "g_flight"}))
    /\ \A g \in Gens : (pc[g] = "g_wait") ~> (pc[g] = "g_locked")
    /\ \A g \in Gens : (pc[g] = "g_locked") ~> (pc[g] = "g_idle" /\ genRes[g] # NoResp /\ reqMu # g)

\* One call returned on the precondition failure before the handshake, the
\* other returned from a request after it, and the lock is free.
C38_Witness ==
    /\ genRes["g1"].err = ErrNotInit
    /\ genRes["g2"].err = ErrStatus
    /\ pc["g1"] = "g_idle"
    /\ pc["g2"] = "g_idle"
    /\ reqMu = ""

\* The events of the Claude dialect around the deltas of a list of chunks.
ClaudeEvents(chunks) ==
    <<Event("message_start", <<>>), Event("content_block_start", <<>>)>>
      \o [i \in 1..Len(chunks) |-> Event("content", chunks[i])]
      \o <<Event("content_block_stop", <<>>), Event("message_stop", <<>>)>>

\* s is the first n elements of t.
IsPrefix(s, t) == Len(s) <= Len(t) /\ \A i \in 1..Len(s) : s[i] = t[i]

\* C39: the events a Claude-dialect stream hands to its writer are, at
\* every moment, the first events of message_start, content_block_start, one
\* delta per chunk in chunk order, content_block_stop, message_stop, and are
\* all of them once a stream that was not cancelled has ended; a stream
\* whose generation failed hands over one error event and nothing else.
C39_ClaudeEventOrder ==
    stream.dialect = "claude" =>
       IF stream.chunks = <<>>
       THEN stream.pc = "done" /\ stream.sent = <<Event("error", <<>>)>>
       ELSE /\ IsPrefix(stream.sent, ClaudeEvents(stream.chunks))
            /\ (stream.pc = "done" /\ ~stream.cancelled)
                 => stream.sent = ClaudeEvents(stream.chunks)

C39_Witness ==
    /\ stream.dialect = "claude"
    /\ stream.pc = "done"
    /\ ~stream.cancelled
    /\ Len(stream.chunks) = 2
    /\ stream.sent = ClaudeEvents(stream.chunks)
    /\ Len(stream.out) < Len(stream.sent)

\* The stop hook runs in this step.
StopStep == ~srv.stopped /\ srv'.stopped

\* C40: the stop hook, run while an application is listening, leaves no
\* application listening, and none listens once the hook has run.
C40_StopEndsListening ==
    [][(StopStep /\ srv.listening # NoApp) => srv'.listening = NoApp]_vars

====
